---- MODULE Spec2Model ----
(***************************************************************************)
(* State-machine model of the tsp-triager pipeline:                        *)
(*   - orchestrate (src/src/triage/orchestrate.ts) driving executeAgent    *)
(*     (src/src/triage/execute-agent.ts) and aggregateResults              *)
(*     (src/unnamed/part_008) over the result files under temp/results;    *)
(*   - the verify-repro sandbox (src/src/helpers/verify-repro.ts).         *)
(* Optional values (null / undefined) are the empty sequence <<>>; strings *)
(* built by concatenation are sequences of their pieces.                   *)
(***************************************************************************)
EXTENDS Integers, Sequences, FiniteSets, TLC

\* ---------------------------------------------------------------- bounds
MaxIssues == 3
MaxConcurrency == 3
MaxRuns == 2
MaxUsageIssues == 2

Issues == 1..MaxIssues

\* ------------------------------------------------------- data: CLIOptions
\* opts.concurrency is the result of parseInt: an integer, negative ones
\* included, or NaN.
NaNConcurrency == [nan |-> TRUE, val |-> 0]

Concurrency(n) == [nan |-> FALSE, val |-> n]

ConcurrencyValues == {NaNConcurrency} \cup {Concurrency(n) : n \in -1..MaxConcurrency}

TriageModes == {"cli", "agent"}

\* --model <model>; DEFAULT_MODEL when the flag is not given.
DefaultModel == <<"claude-sonnet-4">>

CLIOptions == [mode : TriageModes, concurrency : ConcurrencyValues, model : {DefaultModel}]

\* JavaScript `opts.concurrency <= 1`: any comparison with NaN is false.
ConcurrencyLeOne(c) == ~c.nan /\ c.val <= 1

\* ------------------------------------------------- data: result files
\* The content of temp/results/issue-<n>.json: no file, a file that does
\* not parse, or a parsed TriageIssue (only the fields the pipeline reads).
TokenUsages == {<<>>, <<4, 4>>}

\* compilerOptions.emit: not there (compilerOptions null, or without emit),
\* or a list of emitter names.
NoEmit == [present |-> FALSE, list |-> <<>>]

Emit(list) == [present |-> TRUE, list |-> list]

\* A file of the given kind that holds no TriageIssue.  An optional string
\* is <<>> (null, undefined) or <<text>>.
NoIssue(kind) ==
  [kind |-> kind, tokenUsage |-> <<>>, triageDurationSeconds |-> <<>>,
   category |-> "", model |-> <<>>,
   reproStatus |-> "", verification |-> "", reproCode |-> <<>>,
   playgroundLink |-> <<>>, emit |-> NoEmit, emitter |-> <<>>,
   suggestedArea |-> <<>>, labels |-> {}, actions |-> <<>>]

Absent == NoIssue("absent")

Corrupt == NoIssue("corrupt")

\* The TriageIssue the agents of the pipeline runs write: a bug with a
\* reproduction and no playground link, found fixed.
PlainIssue ==
  [kind |-> "json", tokenUsage |-> <<>>, triageDurationSeconds |-> <<>>,
   category |-> "bug", model |-> <<>>,
   reproStatus |-> "has-repro", verification |-> "fixed",
   reproCode |-> <<"model M {}">>, playgroundLink |-> <<>>, emit |-> NoEmit,
   emitter |-> <<>>, suggestedArea |-> <<>>, labels |-> {"bug"}, actions |-> <<>>]

\* In the runs of the pipeline the results differ in their token usage only.
TriageIssues == {[PlainIssue EXCEPT !.tokenUsage = t] : t \in TokenUsages}

Contents == {Absent, Corrupt} \cup TriageIssues

\* category of a TriageIssue (types.ts:8), and a value outside the type:
\* the file is the output of JSON.parse cast to TriageIssue, unchecked.
Categories == {"bug", "feature-request", "docs-bug", "unknown"}

WrittenCategories == Categories \cup {"question"}

\* Result files of every category, for the aggregation on its own.
ClassifiedContents ==
  {Absent, Corrupt} \cup {[PlainIssue EXCEPT !.category = c] : c \in WrittenCategories}

\* model of a TriageIssue (types.ts): absent, or the name the agent reports.
Models == {<<>>, <<"gpt-5">>, <<"claude-opus-4">>}

\* Result files that differ in the model they report.
ModelContents == {Absent, Corrupt} \cup {[PlainIssue EXCEPT !.model = m] : m \in Models}

\* Result files over the fields the playground link is derived from:
\* reproCode (absent, empty, present), playgroundLink, compilerOptions.emit
\* (absent, empty, two emitters) and emitter.
LinkContents ==
  {[PlainIssue EXCEPT !.reproCode = c, !.playgroundLink = l, !.emit = e, !.emitter = r] :
     c \in {<<>>, <<"">>, <<"model M {}">>},
     l \in {<<>>, <<"https://typespec.io/playground?c=old">>},
     e \in {NoEmit, Emit(<<>>), Emit(<<"@typespec/openapi3", "@typespec/json-schema">>)},
     r \in {<<>>, <<"@typespec/http-client-js">>}}

\* Result files over the fields buildActions reads.
ActionContents ==
  {[PlainIssue EXCEPT !.suggestedArea = a, !.labels = l, !.category = c,
                      !.reproStatus = r, !.verification = v, !.reproCode = code] :
     a \in {<<>>, <<"compiler">>},
     l \in {{"bug", "needs-area"}, {"bug", "compiler"}},
     c \in {"bug", "feature-request"},
     r \in {"has-repro", "missing", "generated"},
     v \in {"fixed", "still-reproduces"},
     code \in {<<>>, <<"model M {}">>}}

\* reproStatus and verification of a TriageIssue (types.ts:9, types.ts:14).
ReproStatuses == {"has-repro", "missing", "generated", "unable-to-repro"}

Verifications == {"still-reproduces", "fixed", "compile-error", "not-verified"}

\* Result files of every reproduction status and every verification verdict.
StatusContents ==
  {Absent, Corrupt}
    \cup {[PlainIssue EXCEPT !.reproStatus = r, !.verification = v] :
            r \in ReproStatuses, v \in Verifications}

\* triageDurationSeconds of a result file, in hundredths of a second:
\* absent, zero, 1.25 s, 2.4 s.
Durations == {<<>>, <<0>>, <<125>>, <<240>>}

\* Result files that differ in the duration and the token usage they report.
TimedContents ==
  {Absent, Corrupt}
    \cup {[PlainIssue EXCEPT !.triageDurationSeconds = d, !.tokenUsage = t] :
            d \in Durations, t \in {<<>>, <<0, 3>>, <<4, 4>>}}

\* A result file whose writer has written only a part of its text so far.
Partial == NoIssue("partial")

\* triageIssue: null of an AgentResult
NullTask == NoIssue("null")

\* ------------------------------------------------- data: the tracker
\* Labels of an open issue as gh prints them.
LabelSets == { {}, {"bug"}, {"feature-request"}, {"bug", "emitter:client:python"} }

ExcludedLabels ==
  {"emitter:client:python", "emitter:client:csharp", "emitter:client:java",
   "emitter:client:js", "feature", "emitter-framework"}

\* --limit <n>, or null
Limits == {<<>>, <<2>>}

\* What the tracker answers to the two gh queries of one fetchIssues call:
\* the labels of the open issues 1..n at the first query and at the second
\* (labels may be edited in between), and the --limit option.
Trackers(n) ==
  [first : [1..n -> LabelSets], second : [1..n -> LabelSets], limit : Limits]

\* A tracker whose open issues all carry the bug label, no --limit.
PlainTrackers(n) ==
  {[first |-> [k \in 1..n |-> {"bug"}], second |-> [k \in 1..n |-> {"bug"}],
    limit |-> <<>>]}

\* ------------------------------------------------- data: agent process
\* Exit condition of the copilot process as execSync reports it.
Exits == {"0", "1", "timeout"}

\* What the agent printed is a sequence of tokens: a number (digits and
\* commas), one of the words the patterns of parseTokenUsage look for
\* ("input", "output", "total", "tokens", ":" for a colon or equals sign),
\* or any other text ("text").  White space and underscores between tokens
\* are left out.
Num(n) == [t |-> "num", n |-> n]

Word(w) == [t |-> w, n |-> 0]

\* "2 input tokens, 1 output tokens"
CountsFirst ==
  <<Num(2), Word("input"), Word("tokens"), Num(1), Word("output"), Word("tokens")>>

\* The output of an agent in the runs of the pipeline: no token counts, or
\* both counts.
AgentOutputs == {<<Word("text")>>, CountsFirst}

\* Outputs in every label convention.
OutputTexts ==
  { <<>>,
    <<Word("text"), Num(1), Word("tokens")>>,
    CountsFirst,
    <<Word("input"), Word("tokens"), Word(":"), Num(2), Word("text"),
      Word("output"), Word("tokens"), Word(":"), Num(1)>>,
    <<Word("input"), Word("tokens"), Word(":"), Num(2),
      Word("output"), Word("tokens"), Word(":"), Num(1)>>,
    <<Num(2), Word("input"), Word("tokens")>>,
    <<Word("output"), Word("tokens"), Word(":"), Num(1)>>,
    <<Word("total"), Word("tokens"), Word(":"), Num(3)>>,
    <<Word("total"), Word("tokens"), Word(":"), Num(3), Word("text"),
      Num(2), Word("input"), Word("tokens")>>,
    <<Num(0), Word("input"), Word("tokens"), Num(0), Word("output"), Word("tokens")>> }

\* What the agent process leaves in its result file: nothing new, or a file.
NoWrite == NoIssue("nowrite")

AgentWrites == {NoWrite, Corrupt} \cup TriageIssues

\* ------------------------------------------------- data: verify-repro
\* Two invocations of the helper script may overlap in time.
Sandboxes == {1, 2}

MaxClock == 1

\* A module identifier is the sequence of its characters, reduced to what
\* main looks at: whether the first one is "@".
Http == <<"@", "http">>

Openapi3 == <<"@", "openapi3">>

Compiler == <<"@", "compiler">>

Relative == <<".", "lib">>

\* A snippet is reduced to its import declarations, in source order: each
\* is the identifier between its quotes, or <<>> for a declaration the
\* pattern of detectImports does not match (no quoted, non-empty name).
Snippets ==
  {<<>>, <<Http, Relative>>, <<Relative, <<>>, Openapi3, Http, Http, Compiler>>}

\* --emitter <name>, or null
Emitters == {<<>>, Openapi3}

\* How a subprocess run by execSync ends.
ProcOutcomes == {"ok", "fail", "timeout"}

NoDir == [exists |-> FALSE, main |-> <<>>, deps |-> <<>>, config |-> <<>>]

\* emitterOutput of a verdict: null, or the collected files.
NullOutput == [null |-> TRUE, files |-> {}]

\* An entry of the emitter's output directory: a regular file (whether
\* readFileSync can read it, and content.length), a directory (whether
\* readdirSync can list it, and its entries in listing order), or a name
\* statSync fails on (a dangling symbolic link).
Entry(name, kind, readable, length, listable, entries) ==
  [name |-> name, kind |-> kind, readable |-> readable, length |-> length,
   listable |-> listable, entries |-> entries]

\* outputDir does not exist.
NoOutputDir == Entry("tsp-output", "none", FALSE, 0, FALSE, <<>>)

\* content.length < 50_000
MaxOutputChars == 50000

\* What the compiler leaves in outputDir.
OutputDirs ==
  {NoOutputDir,
   Entry("tsp-output", "dir", FALSE, 0, TRUE,
         <<Entry("openapi.yaml", "file", TRUE, MaxOutputChars - 1, FALSE, <<>>),
           Entry("big.json", "file", TRUE, MaxOutputChars, FALSE, <<>>),
           Entry("locked.bin", "file", FALSE, 10, FALSE, <<>>),
           Entry("schemas", "dir", FALSE, 0, TRUE,
                 <<Entry("a.json", "file", TRUE, 10, FALSE, <<>>)>>)>>),
   Entry("tsp-output", "dir", FALSE, 0, TRUE,
         <<Entry("openapi.yaml", "file", TRUE, 10, FALSE, <<>>),
           Entry("link", "dangling", FALSE, 0, FALSE, <<>>)>>),
   Entry("tsp-output", "dir", FALSE, 0, TRUE,
         <<Entry("openapi.yaml", "file", TRUE, 10, FALSE, <<>>),
           Entry("private", "dir", FALSE, 0, FALSE, <<>>)>>)}

VARIABLES
  opts,        \* CLIOptions of the current run
  run,         \* number of the current run of orchestrate
  pc,          \* position of orchestrate
  rawIssues,   \* fetched backlog (sequence of issue numbers)
  noAuthor,    \* fetched issues whose record has no author object
  ghFailed,    \* the gh command of fetchIssues failed in this run
  pidx,        \* prompt loop position (orchestrate step 2)
  index,       \* loop variable i (sequential) / index (runBatch)
  batch,       \* current batch of runBatch
  bi,          \* executors of the current batch already run
  cur,         \* issue whose executeAgent call is in progress (0 = none)
  epc,         \* position inside executeAgent: "idle" | "execSync"
  lookup,      \* result-file content seen by the call's cache check
  running,     \* issues whose agent process is alive
  results,     \* temp/results: issue -> file content
  completed,   \* issues in the order their result file was first written in this run
  prompts,     \* temp/prompts: issues that have a prompt file
  dispatched,  \* issues whose executeAgent was invoked in this run
  jobs,        \* number of executeAgent calls per issue in this run
  returned,    \* issues whose executeAgent returned in this run
  spawned,     \* issues for which an agent process was spawned in this run
  exited,      \* exit condition execSync reported for each issue in this run
  last,        \* the most recently returned executeAgent call
  hitTask,     \* TaskResults of the latest consecutive cache hits, per issue
  report,      \* outcome of aggregateResults / the report file of this run
  clock,       \* Date.now()
  tmp,         \* os.tmpdir(): directory triage-verify-<t> -> what it holds
  sbPc,        \* position of main, per invocation
  sbCode,      \* code, per invocation
  sbEmitter,   \* emitter, per invocation
  sbDir,       \* tempDir (its timestamp), per invocation
  sbThrown,    \* an exception is propagating out of the try block
  sbRan,       \* subprocesses the invocation has run
  sbOut        \* JSON documents the invocation printed to stdout

orchVars == <<opts, run, pc, rawIssues, noAuthor, ghFailed, pidx, index, batch, bi, cur, epc, lookup,
              running, results, completed, prompts, dispatched, jobs, returned,
              spawned, exited, last, hitTask, report>>

sbVars == <<clock, tmp, sbPc, sbCode, sbEmitter, sbDir, sbThrown, sbRan, sbOut>>

vars == <<orchVars, sbVars>>

\* ------------------------------------------------------ pure functions
\* The token t of the text at position k, "" past its end.
TokenAt(text, k) == IF k \in 1..Len(text) THEN text[k].t ELSE ""

\* /(\d[\d,]*)\s*<word>\s*tokens?/i: the number of the leftmost match, or
\* <<>> (null).
CountBefore(text, word) ==
  LET at == {k \in 1..Len(text) : /\ TokenAt(text, k) = "num"
                                   /\ TokenAt(text, k + 1) = word
                                   /\ TokenAt(text, k + 2) = "tokens"}
  IN  IF at = {} THEN <<>>
      ELSE <<text[CHOOSE k \in at : \A j \in at : k <= j].n>>

\* /<word>[_\s]*tokens?\s*[:=]\s*(\d[\d,]*)/i: likewise.
CountAfter(text, word) ==
  LET at == {k \in 1..Len(text) : /\ TokenAt(text, k) = word
                                   /\ TokenAt(text, k + 1) = "tokens"
                                   /\ TokenAt(text, k + 2) = ":"
                                   /\ TokenAt(text, k + 3) = "num"}
  IN  IF at = {} THEN <<>>
      ELSE <<text[(CHOOSE k \in at : \A j \in at : k <= j) + 3].n>>

\* a ?? b
Coalesce(a, b) == IF a # <<>> THEN a ELSE b

ValueOrZero(m) == IF m = <<>> THEN 0 ELSE m[1]

\* Variant of parseTokenUsage: a total count is looked for first.
parseTokenUsageTotalFirst(output) ==
  LET inputMatch == Coalesce(CountBefore(output, "input"), CountAfter(output, "input"))
      outputMatch == Coalesce(CountBefore(output, "output"), CountAfter(output, "output"))
      totalMatch == CountAfter(output, "total")
  IN  IF totalMatch # <<>>
      THEN <<totalMatch[1], 0>>
      ELSE IF inputMatch # <<>> \/ outputMatch # <<>>
           THEN <<ValueOrZero(inputMatch), ValueOrZero(outputMatch)>>
           ELSE <<>>

\* parseTokenUsage (execute-agent.ts:15-36).
parseTokenUsage(output) ==
  LET inputMatch == Coalesce(CountBefore(output, "input"), CountAfter(output, "input"))
      outputMatch == Coalesce(CountBefore(output, "output"), CountAfter(output, "output"))
      totalMatch == CountAfter(output, "total")
  IN  IF inputMatch # <<>> \/ outputMatch # <<>>
      THEN <<ValueOrZero(inputMatch), ValueOrZero(outputMatch)>>
      ELSE IF totalMatch # <<>>
           THEN <<totalMatch[1], 0>>
           ELSE <<>>

\* Variants of the cache check: one that looks at the wrong path and never
\* finds a file, one that trusts existsSync alone.
CacheHitWrongFile(content) == FALSE

CacheHitExistsOnly(content) == content.kind # "absent"

\* Cache check (execute-agent.ts:46-61): existsSync, then JSON.parse in a
\* try whose catch falls through to a re-triage.
CacheHit(content) == content.kind = "json"

\* error string after execSync (execute-agent.ts:85-99); a timeout kills the
\* child and leaves err.status null, which prints as "unknown".
ExitError(exit) ==
  IF exit = "0" THEN <<>>
  ELSE <<"Agent exited with code ", IF exit = "1" THEN "1" ELSE "unknown">>

\* Variant: the child is started without waiting for it.
ExecAsyncReturned(i, alive) == TRUE

\* execSync returns only once the child process has ended.
ExecSyncReturned(i, alive) == i \notin alive

\* Array.prototype.slice(start, end) with a possibly-NaN end (NaN -> 0).
JsSlice(s, start, end) ==
  LET e == IF end.nan THEN 0 ELSE IF end.val > Len(s) THEN Len(s) ELSE end.val
  IN  IF e <= start THEN <<>> ELSE SubSeq(s, start + 1, e)

JsAdd(n, c) == IF c.nan THEN NaNConcurrency ELSE Concurrency(n + c.val)

\* Backlog returned by fetchIssues, reduced to the issue numbers
\* (gh lists the newest issue first).
FetchOrder(n) == [k \in 1..n |-> n + 1 - k]

\* The first m elements (gh --limit, Array.prototype.slice(0, m)).
Take(s, m) == IF Len(s) <= m THEN s ELSE SubSeq(s, 1, m)

\* gh issue list --label <wanted> --limit <m>: the open issues 1..n carrying
\* the wanted labels, newest first, each with its labels.
GhIssueList(n, labels, wanted, m) ==
  LET matching == SelectSeq(FetchOrder(n), LAMBDA k : wanted \subseteq labels[k])
      listed == Take(matching, m)
  IN  [j \in 1..Len(listed) |-> [number |-> listed[j], labels |-> labels[listed[j]]]]

\* Variant of Unlabeled: the test against the numbers of the bug list is
\* dropped, only the labels are looked at.
UnlabeledByLabels(allIssues, bugNumbers) ==
  SelectSeq(allIssues,
            LAMBDA e : e.labels \cap {"bug", "feature-request", "feature"} = {})

\* fetchIssues lines 89-95 (part_006): the issues of the second list that
\* are not in the bug list and carry none of bug, feature-request, feature.
Unlabeled(allIssues, bugNumbers) ==
  SelectSeq(allIssues,
            LAMBDA e : /\ e.number \notin bugNumbers
                       /\ e.labels \cap {"bug", "feature-request", "feature"} = {})

\* fetchIssues (part_006:75-112), reduced to the issue numbers it returns.
fetchIssues(n, tracker) ==
  LET limit == IF tracker.limit = <<>> THEN 500 ELSE tracker.limit[1]
      bugIssues == GhIssueList(n, tracker.first, {"bug"}, limit)
      allIssues == GhIssueList(n, tracker.second, {}, limit)
      bugNumbers == {bugIssues[j].number : j \in 1..Len(bugIssues)}
      merged == bugIssues \o Unlabeled(allIssues, bugNumbers)
      filtered == SelectSeq(merged, LAMBDA e : e.labels \cap ExcludedLabels = {})
      limited == IF tracker.limit # <<>> /\ tracker.limit[1] # 0
                 THEN Take(filtered, tracker.limit[1])
                 ELSE filtered
  IN  [j \in 1..Len(limited) |-> limited[j].number]

NoLast ==
  [issue |-> 0, path |-> "none", lookup |-> Absent, exit |-> "none",
   triageIssue |-> NullTask, tokenUsage |-> <<>>, error |-> <<>>, warned |-> FALSE,
   output |-> <<>>]

NoSummary ==
  [totalIssues |-> 0, bugs |-> 0, featureRequests |-> 0, docsBugs |-> 0, unknown |-> 0,
   withRepro |-> 0, withoutRepro |-> 0, generatedRepro |-> 0,
   stillReproduces |-> 0, fixed |-> 0, compileError |-> 0, notVerified |-> 0]

NoTiming == [cumulative |-> 0, avg |-> 0, min |-> 0, max |-> 0]

NoReport ==
  [written |-> FALSE, issues |-> <<>>, summary |-> NoSummary, entries |-> <<>>,
   model |-> <<>>, timing |-> NoTiming,
   tokenUsage |-> [totalInput |-> 0, totalOutput |-> 0]]

\* No invocation of verify-repro has started.
SbIdle ==
  /\ clock = 0
  /\ tmp = [d \in 0..MaxClock |-> NoDir]
  /\ sbPc = [p \in Sandboxes |-> "idle"]
  /\ sbCode = [p \in Sandboxes |-> <<>>]
  /\ sbEmitter = [p \in Sandboxes |-> <<>>]
  /\ sbDir = [p \in Sandboxes |-> 0]
  /\ sbThrown = [p \in Sandboxes |-> FALSE]
  /\ sbRan = [p \in Sandboxes |-> <<>>]
  /\ sbOut = [p \in Sandboxes |-> <<>>]

\* ---------------------------------------------------------------- Init
\* The state before a run, over the given result files (a set of
\* functions from issue to file).
InitOver(files) ==
  /\ SbIdle
  /\ opts \in CLIOptions
  /\ run = 1
  /\ pc = "start"
  /\ rawIssues = <<>>
  /\ noAuthor = {}
  /\ ghFailed = FALSE
  /\ pidx = 0
  /\ index = 0
  /\ batch = <<>>
  /\ bi = 0
  /\ cur = 0
  /\ epc = "idle"
  /\ lookup = Absent
  /\ running = {}
  /\ results \in files
  /\ completed = <<>>
  /\ prompts = {}
  /\ dispatched = {}
  /\ jobs = [i \in Issues |-> 0]
  /\ returned = {}
  /\ spawned = {}
  /\ exited = [i \in Issues |-> "none"]
  /\ last = NoLast
  /\ hitTask = [i \in Issues |-> <<>>]
  /\ report = NoReport

InitFiles(contents) == InitOver([Issues -> contents])

\* The pipeline starts over whatever result files earlier runs left.
Init == InitFiles(Contents)

\* ------------------------------------------------------- executeAgent
\* Variant of ReadResult: the result file is read only after a clean exit.
ReadResultSkipOnError(file, exit, output) ==
  LET tokenUsage == parseTokenUsage(output)
      err0 == ExitError(exit)
      backfill == /\ tokenUsage # <<>>
                  /\ (file.tokenUsage = <<>> \/ file.tokenUsage[1] = 0)
      parsed == IF backfill THEN [file EXCEPT !.tokenUsage = tokenUsage] ELSE file
  IN  IF err0 # <<>>
      THEN [triageIssue |-> NullTask, tokenUsage |-> tokenUsage, error |-> err0,
            file |-> file]
      ELSE IF file.kind = "json"
      THEN [triageIssue |-> parsed, tokenUsage |-> tokenUsage, error |-> err0,
            file |-> parsed]
      ELSE IF file.kind = "corrupt"
      THEN [triageIssue |-> NullTask, tokenUsage |-> tokenUsage,
            error |-> <<"; Failed to parse result file">>, file |-> file]
      ELSE [triageIssue |-> NullTask, tokenUsage |-> tokenUsage,
            error |-> <<"Agent did not produce a result file">>, file |-> file]

\* Variant of ReadResult: a missing file is not reported.
ReadResultNoMissingError(file, exit, output) ==
  LET tokenUsage == parseTokenUsage(output)
      err0 == ExitError(exit)
      backfill == /\ tokenUsage # <<>>
                  /\ (file.tokenUsage = <<>> \/ file.tokenUsage[1] = 0)
      parsed == IF backfill THEN [file EXCEPT !.tokenUsage = tokenUsage] ELSE file
  IN  IF file.kind = "json"
      THEN [triageIssue |-> parsed, tokenUsage |-> tokenUsage, error |-> err0,
            file |-> parsed]
      ELSE IF file.kind = "corrupt"
      THEN [triageIssue |-> NullTask, tokenUsage |-> tokenUsage,
            error |-> err0 \o <<"; Failed to parse result file">>, file |-> file]
      ELSE [triageIssue |-> NullTask, tokenUsage |-> tokenUsage, error |-> err0,
            file |-> file]

\* Lines 101-135 of executeAgent: what the call returns and leaves on disk
\* once execSync is over, given the file the agent left, the exit condition
\* and the captured output.
ReadResult(file, exit, output) ==
  LET tokenUsage == parseTokenUsage(output)
      err0 == ExitError(exit)
      backfill == /\ tokenUsage # <<>>
                  /\ (file.tokenUsage = <<>> \/ file.tokenUsage[1] = 0)
      parsed == IF backfill THEN [file EXCEPT !.tokenUsage = tokenUsage] ELSE file
  IN  IF file.kind = "json"
      THEN [triageIssue |-> parsed, tokenUsage |-> tokenUsage, error |-> err0,
            file |-> parsed]
      ELSE IF file.kind = "corrupt"
      THEN [triageIssue |-> NullTask, tokenUsage |-> tokenUsage,
            error |-> err0 \o <<"; Failed to parse result file">>, file |-> file]
      ELSE [triageIssue |-> NullTask, tokenUsage |-> tokenUsage,
            error |-> IF err0 = <<>> THEN <<"Agent did not produce a result file">>
                      ELSE err0,
            file |-> file]

\* The writer of the result file of issue i has finished: i takes its place
\* in the order of completion, unless it has one already.
Completes(order, i) ==
  IF \E k \in 1..Len(order) : order[k] = i THEN order ELSE Append(order, i)

\* The caller resumes after executeAgent returns: i++ of the sequential
\* loop, or the next executor of batch.map.
ReturnToCaller ==
  IF pc = "seq"
  THEN index' = index + 1 /\ UNCHANGED bi
  ELSE bi' = bi + 1 /\ UNCHANGED index

\* executeAgent(issue) up to its first blocking point: the cache check and,
\* on a miss, the prompt file and the spawn (lines 39-94).
ExecuteAgentBegin(i) ==
  /\ dispatched' = dispatched \cup {i}
  /\ jobs' = [jobs EXCEPT ![i] = @ + 1]
  /\ IF CacheHit(results[i])
     THEN /\ last' = [issue |-> i, path |-> "cached", lookup |-> results[i],
                      exit |-> "none", triageIssue |-> results[i],
                      tokenUsage |-> results[i].tokenUsage, error |-> <<>>,
                      warned |-> FALSE, output |-> <<>>]
          /\ hitTask' = [hitTask EXCEPT ![i] = Append(@, results[i])]
          /\ returned' = returned \cup {i}
          /\ ReturnToCaller
          /\ UNCHANGED <<cur, epc, lookup, running, spawned, prompts>>
     ELSE /\ prompts' = prompts \cup {i}
          /\ running' = running \cup {i}
          /\ spawned' = spawned \cup {i}
          /\ cur' = i
          /\ epc' = "execSync"
          /\ lookup' = results[i]
          /\ UNCHANGED <<last, hitTask, returned, index, bi>>
  /\ UNCHANGED exited
  /\ UNCHANGED <<sbVars, completed, opts, run, pc, rawIssues, noAuthor, ghFailed, pidx, batch, results, report>>

\* The agent process of issue i ends - by itself, or killed by execSync at
\* the timeout - having left a result file or not.
AgentExit(i, w) ==
  /\ i \in running
  /\ running' = running \ {i}
  /\ results' = IF w = NoWrite THEN results ELSE [results EXCEPT ![i] = w]
  /\ completed' = IF w = NoWrite THEN completed ELSE Completes(completed, i)
  /\ UNCHANGED <<sbVars, opts, run, pc, rawIssues, noAuthor, ghFailed, pidx, index, batch, bi, cur, epc,
                 lookup, prompts, dispatched, jobs, returned, spawned, exited, last, hitTask,
                 report>>

\* executeAgent from the return of execSync to its own return (lines
\* 95-135): execSync reports the exit condition e and the captured output o.
ExecuteAgentFinish(e, o) ==
  /\ epc = "execSync"
  /\ ExecSyncReturned(cur, running)
  /\ LET r == ReadResult(results[cur], e, o)
     IN  /\ results' = [results EXCEPT ![cur] = r.file]
         /\ last' = [issue |-> cur, path |-> "ran", lookup |-> lookup,
                     exit |-> e, triageIssue |-> r.triageIssue,
                     tokenUsage |-> r.tokenUsage, error |-> r.error,
                     warned |-> (r.error # <<>>), output |-> o]
  /\ hitTask' = [hitTask EXCEPT ![cur] = <<>>]
  /\ returned' = returned \cup {cur}
  /\ cur' = 0
  /\ epc' = "idle"
  /\ lookup' = Absent
  /\ ReturnToCaller
  /\ exited' = [exited EXCEPT ![cur] = e]
  /\ UNCHANGED <<sbVars, completed, opts, run, pc, rawIssues, noAuthor, ghFailed, pidx, batch, running, prompts,
                 dispatched, jobs, spawned, report>>

\* -------------------------------------------------------- orchestrate
\* Variant of Setup: the prompts directory is created if missing, never
\* removed.
SetupKeepsPrompts ==
  /\ pc = "start"
  /\ prompts' = prompts
  /\ pc' = "fetch"
  /\ UNCHANGED <<sbVars, completed, opts, run, rawIssues, noAuthor, ghFailed, pidx, index, batch, bi, cur, epc, lookup,
                 running, results, dispatched, jobs, returned,
                 spawned, exited, last, hitTask, report>>

\* Lines 19-27: the prompts directory is removed and recreated.
Setup ==
  /\ pc = "start"
  /\ prompts' = {}
  /\ pc' = "fetch"
  /\ UNCHANGED <<sbVars, completed, opts, run, rawIssues, noAuthor, ghFailed, pidx, index, batch, bi, cur, epc, lookup,
                 running, results, dispatched, jobs, returned,
                 spawned, exited, last, hitTask, report>>

\* At most one record of a fetched backlog lacks its author.
MissingAuthors(n) == {{}} \cup {{i} : i \in 1..n}

\* Line 31: fetchIssues returns the backlog (JSON.parse of what gh printed,
\* cast to RawIssue[] unchecked) ...
FetchIssues(n, tracker, bad) ==
  /\ pc = "fetch"
  /\ rawIssues' = fetchIssues(n, tracker)
  /\ noAuthor' = bad
  /\ ghFailed' = FALSE
  /\ pidx' = 0
  /\ pc' = "prompts"
  /\ UNCHANGED <<sbVars, completed, opts, run, index, batch, bi, cur, epc, lookup, running,
                 results, prompts, dispatched, jobs, returned,
                 spawned, exited, last, hitTask, report>>

\* Variant of FetchFails: the failure of gh is swallowed and the run goes on
\* with an empty backlog.
FetchFailsSwallowed ==
  /\ pc = "fetch"
  /\ ghFailed' = TRUE
  /\ pc' = "prompts"
  /\ UNCHANGED <<sbVars, completed, opts, run, rawIssues, noAuthor, pidx, index, batch, bi, cur, epc,
                 lookup, running, results, prompts, dispatched, jobs,
                 returned, spawned, exited, last, hitTask, report>>

\* ... or throws (gh exits non-zero, part_006:78-86): nothing catches it
\* in orchestrate, the promise rejects and the entry point prints "Fatal
\* error" and calls process.exit(1).
FetchFails ==
  /\ pc = "fetch"
  /\ ghFailed' = TRUE
  /\ pc' = "fatal"
  /\ UNCHANGED <<sbVars, completed, opts, run, rawIssues, noAuthor, pidx, index, batch, bi, cur, epc,
                 lookup, running, results, prompts, dispatched, jobs,
                 returned, spawned, exited, last, hitTask, report>>

\* buildAgentPrompt (orchestrate.ts:131-176) reads issue.author.login: it
\* throws a TypeError on a record without author.
PromptRenders(i, missing) == i \notin missing

\* Lines 37-41: one prompt file per fetched issue.  The loop has no try:
\* an exception of buildAgentPrompt rejects orchestrate, and the entry point
\* prints "Fatal error" and exits 1.
WritePrompt ==
  /\ pc = "prompts"
  /\ pidx < Len(rawIssues)
  /\ IF PromptRenders(rawIssues[pidx + 1], noAuthor)
     THEN /\ prompts' = prompts \cup {rawIssues[pidx + 1]}
          /\ pidx' = pidx + 1
          /\ UNCHANGED pc
     ELSE /\ pc' = "fatal"
          /\ UNCHANGED <<prompts, pidx>>
  /\ UNCHANGED <<sbVars, completed, opts, run, rawIssues, noAuthor, ghFailed, index, batch, bi, cur, epc, lookup,
                 running, results, dispatched, jobs, returned,
                 spawned, exited, last, hitTask, report>>

\* Variant of PromptsDone: the agents are run whatever the mode.
PromptsDoneAnyMode ==
  /\ pc = "prompts"
  /\ pidx = Len(rawIssues)
  /\ index' = 0
  /\ pc' = IF ConcurrencyLeOne(opts.concurrency) THEN "seq" ELSE "par"
  /\ UNCHANGED <<sbVars, completed, opts, run, rawIssues, noAuthor, ghFailed, pidx, batch, bi, cur, epc, lookup,
                 running, results, prompts, dispatched, jobs,
                 returned, spawned, exited, last, hitTask, report>>

\* Lines 46-59: the mode and concurrency select the execution path.
PromptsDone ==
  /\ pc = "prompts"
  /\ pidx = Len(rawIssues)
  /\ index' = 0
  /\ pc' = IF opts.mode = "cli"
           THEN IF ConcurrencyLeOne(opts.concurrency) THEN "seq" ELSE "par"
           ELSE "aggregate"
  /\ UNCHANGED <<sbVars, completed, opts, run, rawIssues, noAuthor, ghFailed, pidx, batch, bi, cur, epc, lookup,
                 running, results, prompts, dispatched, jobs,
                 returned, spawned, exited, last, hitTask, report>>

\* Lines 52-56: sequential execution.
SeqDispatch ==
  /\ pc = "seq"
  /\ epc = "idle"
  /\ index < Len(rawIssues)
  /\ ExecuteAgentBegin(rawIssues[index + 1])

SeqDone ==
  /\ pc = "seq"
  /\ epc = "idle"
  /\ index >= Len(rawIssues)
  /\ pc' = "aggregate"
  /\ UNCHANGED <<sbVars, completed, opts, run, rawIssues, noAuthor, ghFailed, pidx, index, batch, bi, cur, epc, lookup,
                 running, results, prompts, dispatched, jobs,
                 returned, spawned, exited, last, hitTask, report>>

\* Lines 64-66: the next batch is sliced off the queue.
BatchStart ==
  /\ pc = "par"
  /\ index < Len(rawIssues)
  /\ batch' = JsSlice(rawIssues, index, JsAdd(index, opts.concurrency))
  /\ index' = index + Len(batch')
  /\ bi' = 0
  /\ pc' = "map"
  /\ UNCHANGED <<sbVars, completed, opts, run, rawIssues, noAuthor, ghFailed, pidx, cur, epc, lookup, running,
                 results, prompts, dispatched, jobs, returned,
                 spawned, exited, last, hitTask, report>>

\* Lines 67-75: batch.map runs each Promise executor, and with it
\* executeAgent, synchronously in turn.
BatchDispatch ==
  /\ pc = "map"
  /\ epc = "idle"
  /\ bi < Len(batch)
  /\ ExecuteAgentBegin(batch[bi + 1])

\* Line 76: await Promise.all(batchPromises), every promise being resolved.
BatchAwait ==
  /\ pc = "map"
  /\ epc = "idle"
  /\ bi >= Len(batch)
  /\ pc' = "par"
  /\ UNCHANGED <<sbVars, completed, opts, run, rawIssues, noAuthor, ghFailed, pidx, index, batch, bi, cur, epc, lookup,
                 running, results, prompts, dispatched, jobs,
                 returned, spawned, exited, last, hitTask, report>>

\* Lines 64, 78-81: the while loop ends.
ParDone ==
  /\ pc = "par"
  /\ index >= Len(rawIssues)
  /\ pc' = "aggregate"
  /\ UNCHANGED <<sbVars, completed, opts, run, rawIssues, noAuthor, ghFailed, pidx, index, batch, bi, cur, epc, lookup,
                 running, results, prompts, dispatched, jobs,
                 returned, spawned, exited, last, hitTask, report>>

\* Variant of AggregateIssues: one unparseable file aborts the aggregation.
AggregateIssuesAbort(raw, files) ==
  IF \E k \in 1..Len(raw) : files[raw[k]].kind = "corrupt"
  THEN <<>>
  ELSE SelectSeq(raw, LAMBDA i : files[i].kind = "json")

\* Variant of AggregateIssues: every backlog issue is reported, with or
\* without a result file.
AggregateIssuesAll(raw, files) == raw

\* Variant of AggregateIssues: the results are collected in the order the
\* result files were completed.
AggregateIssuesCompleted(raw, files) ==
  SelectSeq(completed, LAMBDA i : /\ \E k \in 1..Len(raw) : raw[k] = i
                                  /\ files[i].kind = "json")

\* aggregateResults (part_008:18-38): the issues, in backlog order, whose
\* result file exists and parses; a file that fails to parse is skipped with
\* a warning.
RECURSIVE AggregateIssues(_, _)
AggregateIssues(raw, files) ==
  IF raw = <<>> THEN <<>>
  ELSE IF files[Head(raw)].kind = "json"
       THEN <<Head(raw)>> \o AggregateIssues(Tail(raw), files)
       ELSE AggregateIssues(Tail(raw), files)

\* triageIssues.filter((i) => i.category === c).length
CountCategory(found, files, c) ==
  Cardinality({k \in 1..Len(found) : files[found[k]].category = c})

\* triageIssues.filter((i) => i.reproStatus === s).length
CountReproStatus(found, files, s) ==
  Cardinality({k \in 1..Len(found) : files[found[k]].reproStatus = s})

\* triageIssues.filter((i) => i.verification === v).length
CountVerification(found, files, v) ==
  Cardinality({k \in 1..Len(found) : files[found[k]].verification = v})

\* summary of aggregateResults (part_008:42-55): the counts by category, by
\* reproduction status and by verification verdict.
Summary(found, files) ==
  [totalIssues |-> Len(found),
   bugs |-> CountCategory(found, files, "bug"),
   featureRequests |-> CountCategory(found, files, "feature-request"),
   docsBugs |-> CountCategory(found, files, "docs-bug"),
   unknown |-> CountCategory(found, files, "unknown"),
   withRepro |-> CountReproStatus(found, files, "has-repro"),
   withoutRepro |-> CountReproStatus(found, files, "missing"),
   generatedRepro |-> CountReproStatus(found, files, "generated"),
   stillReproduces |-> CountVerification(found, files, "still-reproduces"),
   fixed |-> CountVerification(found, files, "fixed"),
   compileError |-> CountVerification(found, files, "compile-error"),
   notVerified |-> CountVerification(found, files, "not-verified")]

\* JavaScript truthiness of an optional string: null, undefined and "" are
\* falsy.
Truthy(v) == v # <<>> /\ v[1] # ""

\* Array.prototype.join(",")
RECURSIVE JoinComma(_)
JoinComma(names) ==
  IF names = <<>> THEN <<>>
  ELSE IF Len(names) = 1 THEN names
  ELSE <<Head(names), ",">> \o JoinComma(Tail(names))

\* buildPlaygroundLink (part_006:14-22): the compressed code as parameter c
\* and, when there are emitters, their names joined as parameter e.
buildPlaygroundLink(code, emitters) ==
  <<"https://typespec.io/playground?", "c=", "lzutf8-base64:">> \o code
    \o (IF Len(emitters) > 0 THEN <<"&e=">> \o JoinComma(emitters) ELSE <<>>)

\* result.compilerOptions?.emit ?? (result.emitter ? [result.emitter] : [])
\* (part_008:24)
EmittersOf(result) ==
  IF result.emit.present THEN result.emit.list
  ELSE IF Truthy(result.emitter) THEN result.emitter
  ELSE <<>>

\* Variant of WithPlaygroundLink: a link is derived for every entry with code.
WithPlaygroundLinkAlways(result) ==
  IF Truthy(result.reproCode)
  THEN [result EXCEPT !.playgroundLink =
                        buildPlaygroundLink(result.reproCode, EmittersOf(result))]
  ELSE result

\* part_008:23-26: an entry with code and without link gets a derived link.
WithPlaygroundLink(result) ==
  IF Truthy(result.reproCode) /\ ~Truthy(result.playgroundLink)
  THEN [result EXCEPT !.playgroundLink =
                        buildPlaygroundLink(result.reproCode, EmittersOf(result))]
  ELSE result

\* opts.repo (DEFAULT_REPO)
DefaultRepo == "microsoft/typespec"

\* Variant of buildActions: the close action comes first.
buildActionsCloseFirst(issue, number, repo) ==
  LET n == ToString(number)
  IN  (IF issue.verification = "fixed"
       THEN <<[label |-> <<"Close as fixed">>, icon |-> "check mark",
               command |-> <<"gh issue close ", n, " --repo ", repo, " --comment ",
                             "This issue appears to be fixed">>,
               type |-> "close"]>>
       ELSE <<>>)
      \o (IF Truthy(issue.suggestedArea) /\ issue.suggestedArea[1] \notin issue.labels
          THEN <<[label |-> <<"Add ">> \o issue.suggestedArea, icon |-> "label",
                  command |-> <<"gh issue edit ", n, " --add-label ">>
                                \o issue.suggestedArea
                                \o (IF "needs-area" \in issue.labels
                                    THEN <<" --remove-label needs-area">> ELSE <<>>)
                                \o <<" --repo ", repo>>,
                  type |-> "area"]>>
          ELSE <<>>)
      \o (IF issue.reproStatus = "missing" /\ issue.category = "bug"
          THEN <<[label |-> <<"Request repro">>, icon |-> "speech balloon",
                  command |-> <<"gh issue comment ", n, " --repo ", repo, " --body ",
                                "Could you provide a minimal reproduction?">>,
                  type |-> "comment"]>>
          ELSE <<>>)
      \o (IF issue.reproStatus = "generated" /\ Truthy(issue.reproCode)
          THEN <<[label |-> <<"Share repro">>, icon |-> "clipboard",
                  command |-> <<"gh issue comment ", n, " --repo ", repo, " --body ">>
                                \o (IF Truthy(issue.playgroundLink)
                                    THEN <<"Open in Playground: ">>
                                           \o issue.playgroundLink
                                    ELSE <<"code block: ">> \o issue.reproCode),
                  type |-> "comment"]>>
          ELSE <<>>)

\* buildActions (part_006:24-69).  number is issue.number: the result file
\* of an issue carries the number its prompt names.
buildActions(issue, number, repo) ==
  LET n == ToString(number)
  IN  (IF Truthy(issue.suggestedArea) /\ issue.suggestedArea[1] \notin issue.labels
       THEN <<[label |-> <<"Add ">> \o issue.suggestedArea, icon |-> "label",
               command |-> <<"gh issue edit ", n, " --add-label ">>
                             \o issue.suggestedArea
                             \o (IF "needs-area" \in issue.labels
                                 THEN <<" --remove-label needs-area">> ELSE <<>>)
                             \o <<" --repo ", repo>>,
               type |-> "area"]>>
       ELSE <<>>)
      \o (IF issue.reproStatus = "missing" /\ issue.category = "bug"
          THEN <<[label |-> <<"Request repro">>, icon |-> "speech balloon",
                  command |-> <<"gh issue comment ", n, " --repo ", repo, " --body ",
                                "Could you provide a minimal reproduction?">>,
                  type |-> "comment"]>>
          ELSE <<>>)
      \o (IF issue.verification = "fixed"
          THEN <<[label |-> <<"Close as fixed">>, icon |-> "check mark",
                  command |-> <<"gh issue close ", n, " --repo ", repo, " --comment ",
                                "This issue appears to be fixed">>,
                  type |-> "close"]>>
          ELSE <<>>)
      \o (IF issue.reproStatus = "generated" /\ Truthy(issue.reproCode)
          THEN <<[label |-> <<"Share repro">>, icon |-> "clipboard",
                  command |-> <<"gh issue comment ", n, " --repo ", repo, " --body ">>
                                \o (IF Truthy(issue.playgroundLink)
                                    THEN <<"Open in Playground: ">>
                                           \o issue.playgroundLink
                                    ELSE <<"code block: ">> \o issue.reproCode),
                  type |-> "comment"]>>
          ELSE <<>>)

\* part_008:22-28: the entry pushed for a parsed result file.
AggregateEntry(result, number) ==
  LET linked == WithPlaygroundLink(result)
  IN  [linked EXCEPT !.actions = buildActions(linked, number, DefaultRepo)]

\* modelCounts (part_008:73-78): a Map keeps its keys in insertion order;
\* here the sequence of its entries.
RECURSIVE ModelCounts(_, _)
ModelCounts(entries, counts) ==
  IF entries = <<>> THEN counts
  ELSE LET m == Head(entries).model
           bumped ==
             IF ~Truthy(m) THEN counts
             ELSE IF \E j \in 1..Len(counts) : counts[j].model = m
             THEN [j \in 1..Len(counts) |->
                     IF counts[j].model = m
                     THEN [counts[j] EXCEPT !.count = @ + 1]
                     ELSE counts[j]]
             ELSE Append(counts, [model |-> m, count |-> 1])
       IN  ModelCounts(Tail(entries), bumped)

\* Variant of SortByCount: among equal counts the later entry comes first.
RECURSIVE SortByCountLastFirst(_)
SortByCountLastFirst(list) ==
  IF list = <<>> THEN <<>>
  ELSE LET sorted == SortByCountLastFirst(SubSeq(list, 1, Len(list) - 1))
           x == list[Len(list)]
           ahead == Cardinality({j \in 1..Len(sorted) : sorted[j].count > x.count})
       IN  SubSeq(sorted, 1, ahead) \o <<x>> \o SubSeq(sorted, ahead + 1, Len(sorted))

\* Array.prototype.sort((a, b) => b[1] - a[1]): by count, descending; the
\* sort is stable, entries of equal count keep their order.
RECURSIVE SortByCount(_)
SortByCount(list) ==
  IF list = <<>> THEN <<>>
  ELSE LET sorted == SortByCount(SubSeq(list, 1, Len(list) - 1))
           x == list[Len(list)]
           ahead == Cardinality({j \in 1..Len(sorted) : sorted[j].count >= x.count})
       IN  SubSeq(sorted, 1, ahead) \o <<x>> \o SubSeq(sorted, ahead + 1, Len(sorted))

\* detectedModel (part_008:79-80)
DetectedModel(entries, configured) ==
  LET sorted == SortByCount(ModelCounts(entries, <<>>))
  IN  IF sorted = <<>> THEN configured ELSE sorted[1].model

\* The issues array of the report.
ReportEntries(found, files) ==
  [k \in 1..Len(found) |-> AggregateEntry(files[found[k]], found[k])]

\* Math.round((num / den) * 10) / 10 of a duration that is not negative,
\* num in hundredths of a second.
RoundTenth(num, den) == ((2 * num + 10 * den) \div (20 * den)) * 10

RECURSIVE SumSeq(_)
SumSeq(seq) == IF seq = <<>> THEN 0 ELSE Head(seq) + SumSeq(Tail(seq))

\* Variant of AgentDurations: every reported duration counts, zero too.
AgentDurationsReported(found, files) ==
  LET reported == SelectSeq(found, LAMBDA i : files[i].triageDurationSeconds # <<>>)
  IN  [k \in 1..Len(reported) |-> files[reported[k]].triageDurationSeconds[1]]

\* agentDurations (part_008:62-64): the durations that are reported and
\* positive.
AgentDurations(found, files) ==
  LET positive == SelectSeq(found, LAMBDA i : /\ files[i].triageDurationSeconds # <<>>
                                              /\ files[i].triageDurationSeconds[1] > 0)
  IN  [k \in 1..Len(positive) |-> files[positive[k]].triageDurationSeconds[1]]

\* The agent fields of timing (part_008:65-72, 89-92).
Timing(found, files) ==
  LET d == AgentDurations(found, files)
      all == {d[k] : k \in 1..Len(d)}
  IN  IF d = <<>> THEN NoTiming
      ELSE [cumulative |-> RoundTenth(SumSeq(d), 1),
            avg |-> RoundTenth(SumSeq(d), Len(d)),
            min |-> RoundTenth(CHOOSE x \in all : \A y \in all : x <= y, 1),
            max |-> RoundTenth(CHOOSE x \in all : \A y \in all : x >= y, 1)]

\* tokenUsage of the report (part_008:57-60): i.tokenUsage?.input ?? 0 and
\* i.tokenUsage?.output ?? 0, summed.
TokenTotals(found, files) ==
  [totalInput |-> SumSeq([k \in 1..Len(found) |->
                            IF files[found[k]].tokenUsage = <<>> THEN 0
                            ELSE files[found[k]].tokenUsage[1]]),
   totalOutput |-> SumSeq([k \in 1..Len(found) |->
                             IF files[found[k]].tokenUsage = <<>> THEN 0
                             ELSE files[found[k]].tokenUsage[2]])]

\* Variant of ReportOf: the report is written even when nothing was found.
ReportOfAlways(found, files) ==
  [written |-> TRUE, issues |-> found, summary |-> Summary(found, files),
   entries |-> ReportEntries(found, files),
   model |-> DetectedModel(ReportEntries(found, files), opts.model),
   timing |-> Timing(found, files), tokenUsage |-> TokenTotals(found, files)]

\* aggregateResults returns null when found = 0 (part_008:36-38) and
\* orchestrate then returns without writing (orchestrate.ts:100-105);
\* otherwise the report is written (line 111).
ReportOf(found, files) ==
  IF found = <<>> THEN NoReport
  ELSE [written |-> TRUE, issues |-> found, summary |-> Summary(found, files),
        entries |-> ReportEntries(found, files),
        model |-> DetectedModel(ReportEntries(found, files), opts.model),
        timing |-> Timing(found, files), tokenUsage |-> TokenTotals(found, files)]

\* Variant of Aggregate: the derived link and actions are written back to
\* the result files.
AggregateWritesBack ==
  /\ pc = "aggregate"
  /\ report' = ReportOf(AggregateIssues(rawIssues, results), results)
  /\ results' = [i \in Issues |->
                   IF \E k \in 1..Len(report'.issues) : report'.issues[k] = i
                   THEN AggregateEntry(results[i], i)
                   ELSE results[i]]
  /\ pc' = "done"
  /\ UNCHANGED <<sbVars, completed, opts, run, rawIssues, noAuthor, ghFailed, pidx, index, batch, bi, cur, epc, lookup,
                 running, prompts, dispatched, jobs,
                 returned, spawned, exited, last, hitTask>>

\* orchestrate lines 94-118: aggregate, and write the report unless
\* aggregateResults returned null.
Aggregate ==
  /\ pc = "aggregate"
  /\ report' = ReportOf(AggregateIssues(rawIssues, results), results)
  /\ pc' = "done"
  /\ UNCHANGED <<sbVars, completed, opts, run, rawIssues, noAuthor, ghFailed, pidx, index, batch, bi, cur, epc, lookup,
                 running, results, prompts, dispatched, jobs,
                 returned, spawned, exited, last, hitTask>>

\* The operator starts the tool again; the files of the previous run stay.
Rerun ==
  /\ pc \in {"done", "fatal"}
  /\ run < MaxRuns
  /\ run' = run + 1
  /\ opts' = opts
  /\ pc' = "start"
  /\ rawIssues' = <<>>
  /\ noAuthor' = {}
  /\ ghFailed' = FALSE
  /\ pidx' = 0
  /\ index' = 0
  /\ batch' = <<>>
  /\ bi' = 0
  /\ dispatched' = {}
  /\ jobs' = [i \in Issues |-> 0]
  /\ returned' = {}
  /\ spawned' = {}
  /\ exited' = [i \in Issues |-> "none"]
  /\ last' = NoLast
  /\ report' = NoReport
  /\ completed' = <<>>
  /\ UNCHANGED <<sbVars, cur, epc, lookup, running, results,
                 prompts, hitTask>>

Next ==
  \/ Setup
  \/ \E n \in 0..MaxIssues : \E tracker \in PlainTrackers(n), bad \in MissingAuthors(n) :
       FetchIssues(n, tracker, bad)
  \/ FetchFails
  \/ WritePrompt
  \/ PromptsDone
  \/ SeqDispatch
  \/ SeqDone
  \/ BatchStart
  \/ BatchDispatch
  \/ BatchAwait
  \/ ParDone
  \/ \E i \in Issues, w \in AgentWrites : AgentExit(i, w)
  \/ \E e \in Exits, o \in AgentOutputs : ExecuteAgentFinish(e, o)
  \/ Aggregate

Spec == Init /\ [][Next]_vars

\* Successive runs of the tool over the files the previous run left, in cli
\* mode.
InitRuns ==
  /\ Init
  /\ opts.mode = "cli"
  /\ ~opts.concurrency.nan /\ opts.concurrency.val \in 1..2

NextRuns ==
  \/ Next
  \/ Rerun

SpecRuns == InitRuns /\ [][NextRuns]_vars

\* Agent mode: the sub-agents of the interactive session write the result
\* files (README "Agent mode", instructions "Write the result to: ...")
\* while the tool may be run.  Nothing makes the write one step: the file
\* is created or truncated, and its text follows.
SubAgentWriteBegin(i) ==
  /\ opts.mode = "agent"
  /\ results[i].kind # "partial"
  /\ results' = [results EXCEPT ![i] = Partial]
  /\ UNCHANGED <<sbVars, completed, opts, run, pc, rawIssues, noAuthor, ghFailed, pidx, index, batch,
                 bi, cur, epc, lookup, running, prompts, dispatched, jobs, returned,
                 spawned, exited, last, hitTask, report>>

SubAgentWriteEnd(i, w) ==
  /\ opts.mode = "agent"
  /\ results[i].kind = "partial"
  /\ results' = [results EXCEPT ![i] = w]
  /\ completed' = Completes(completed, i)
  /\ UNCHANGED <<sbVars, opts, run, pc, rawIssues, noAuthor, ghFailed, pidx, index, batch,
                 bi, cur, epc, lookup, running, prompts, dispatched, jobs, returned,
                 spawned, exited, last, hitTask, report>>

\* Token usage reported by a result file: none, zero, one count, both.
ReportedUsages == {<<>>, <<0, 0>>, <<0, 3>>, <<4, 0>>, <<4, 4>>}

\* What an agent leaves: nothing, an unparseable file, a result with each
\* usage, or a JSON document that is no TriageIssue (its category is
\* outside the type).
UsageWrites ==
  {NoWrite, Corrupt, [PlainIssue EXCEPT !.category = "question"]}
    \cup {[PlainIssue EXCEPT !.tokenUsage = t] : t \in ReportedUsages}

\* Cli runs starting without result files, over every reported usage and
\* every output text.
InitTokens ==
  /\ InitFiles({Absent})
  /\ opts.mode = "cli"
  /\ ~opts.concurrency.nan /\ opts.concurrency.val \in 1..2

NextTokens ==
  \/ Setup
  \/ \E n \in 0..MaxUsageIssues : \E tracker \in PlainTrackers(n), bad \in MissingAuthors(n) :
       FetchIssues(n, tracker, bad)
  \/ FetchFails
  \/ WritePrompt
  \/ PromptsDone
  \/ SeqDispatch
  \/ SeqDone
  \/ BatchStart
  \/ BatchDispatch
  \/ BatchAwait
  \/ ParDone
  \/ \E i \in Issues, w \in UsageWrites : AgentExit(i, w)
  \/ \E e \in Exits, o \in OutputTexts : ExecuteAgentFinish(e, o)
  \/ Aggregate

SpecTokens == InitTokens /\ [][NextTokens]_vars

\* Cli runs over every tracker, starting without result files.
InitFetch ==
  /\ InitFiles({Absent})
  /\ opts.mode = "cli"
  /\ ~opts.concurrency.nan /\ opts.concurrency.val \in 1..2

NextFetch ==
  \/ Setup
  \/ /\ pc = "fetch"
     /\ \E n \in 0..MaxIssues : \E tracker \in Trackers(n), bad \in MissingAuthors(n) :
          FetchIssues(n, tracker, bad)
  \/ FetchFails
  \/ WritePrompt
  \/ PromptsDone
  \/ SeqDispatch
  \/ SeqDone
  \/ BatchStart
  \/ BatchDispatch
  \/ BatchAwait
  \/ ParDone
  \/ \E i \in Issues, w \in AgentWrites : AgentExit(i, w)
  \/ \E e \in Exits, o \in AgentOutputs : ExecuteAgentFinish(e, o)
  \/ Aggregate

SpecFetch == InitFetch /\ [][NextFetch]_vars

\* The aggregation on its own: agent mode (no agent is run by the tool),
\* over result files of every category left by the sub-agents.
InitAggregate ==
  /\ InitFiles(ClassifiedContents)
  /\ opts = [mode |-> "agent", concurrency |-> Concurrency(1), model |-> DefaultModel]

NextAggregate ==
  \/ Setup
  \/ \E n \in 0..MaxIssues : \E tracker \in PlainTrackers(n), bad \in MissingAuthors(n) :
       FetchIssues(n, tracker, bad)
  \/ FetchFails
  \/ WritePrompt
  \/ PromptsDone
  \/ Aggregate
  \/ \E i \in Issues : SubAgentWriteBegin(i)
  \/ \E i \in Issues, w \in ClassifiedContents \ {Absent, Corrupt} : SubAgentWriteEnd(i, w)

SpecAggregate == InitAggregate /\ [][NextAggregate]_vars

\* The aggregation over the fields of the result files: agent mode, the
\* file of the first issue ranges over every combination of the fields the
\* link and the actions are derived from, all files over the reported model.
InitReport ==
  /\ InitOver({[i \in Issues |-> IF i = 1 THEN first ELSE others[i]] :
                 first \in ModelContents \cup LinkContents \cup ActionContents,
                 others \in [Issues -> ModelContents]})
  /\ opts = [mode |-> "agent", concurrency |-> Concurrency(1), model |-> DefaultModel]

NextReport ==
  \/ Setup
  \/ \E n \in 0..MaxIssues : \E tracker \in PlainTrackers(n), bad \in MissingAuthors(n) :
       FetchIssues(n, tracker, bad)
  \/ FetchFails
  \/ WritePrompt
  \/ PromptsDone
  \/ Aggregate

SpecReport == InitReport /\ [][NextReport]_vars

\* Cli runs that start without result files, under the assumption that
\* every step that can be taken is taken in the end: the steps are the
\* tool's own, the answer of gh, and the end of an agent process, which the
\* timeout of execSync (execute-agent.ts:91) forces.
InitLive ==
  /\ InitFiles({Absent})
  /\ opts.mode = "cli"

SpecLive == InitLive /\ [][Next]_vars /\ WF_vars(Next)

\* The aggregation over result files of every duration and token usage.
InitTiming ==
  /\ InitFiles(TimedContents)
  /\ opts = [mode |-> "agent", concurrency |-> Concurrency(1), model |-> DefaultModel]

SpecTiming == InitTiming /\ [][NextReport]_vars

\* The aggregation over result files of every reproduction status and
\* verification verdict of the type.
InitStatus ==
  /\ InitFiles(StatusContents)
  /\ opts = [mode |-> "agent", concurrency |-> Concurrency(1), model |-> DefaultModel]

SpecStatus == InitStatus /\ [][NextReport]_vars

\* Agent mode over every tracker, starting without result files: the
\* sub-agents write the result files in any order.
InitOrder ==
  /\ InitOver({[i \in Issues |-> Absent]})
  /\ opts = [mode |-> "agent", concurrency |-> Concurrency(1), model |-> DefaultModel]

NextOrder ==
  \/ Setup
  \/ /\ pc = "fetch"
     /\ \E n \in 0..MaxIssues : \E tracker \in Trackers(n) : FetchIssues(n, tracker, {})
  \/ FetchFails
  \/ WritePrompt
  \/ PromptsDone
  \/ Aggregate
  \/ \E i \in Issues : SubAgentWriteBegin(i)
  \/ \E i \in Issues, c \in {"bug", "feature-request"} :
       SubAgentWriteEnd(i, [PlainIssue EXCEPT !.category = c])

SpecOrder == InitOrder /\ [][NextOrder]_vars

\* The dashboard (issue-table.tsx:121-123, 194-199): the rows of the table
\* are the issues of the report sorted by the sort field, number by
\* default, in the sort direction.
RECURSIVE IssueTableRows(_, _)
IssueTableRows(issues, sortDir) ==
  IF issues = <<>> THEN <<>>
  ELSE LET sorted == IssueTableRows(SubSeq(issues, 1, Len(issues) - 1), sortDir)
           x == issues[Len(issues)]
           ahead == Cardinality({j \in 1..Len(sorted) :
                                   IF sortDir = "asc" THEN sorted[j] <= x
                                   ELSE sorted[j] >= x})
       IN  SubSeq(sorted, 1, ahead) \o <<x>> \o SubSeq(sorted, ahead + 1, Len(sorted))

\* useState<SortDir>("desc")
DefaultSortDir == "desc"

\* -------------------------------------------------- verify-repro: main
\* Variant of detectImports: the pattern without its g flag, one match.
detectImportsFirstMatch(code) ==
  IF \E k \in 1..Len(code) : code[k] # <<>>
  THEN <<code[CHOOSE k \in 1..Len(code) :
                 code[k] # <<>> /\ \A j \in 1..(k - 1) : code[j] = <<>>]>>
  ELSE <<>>

\* detectImports (verify-repro.ts:28-38): every import identifier matched,
\* in source order; an empty capture is dropped.
RECURSIVE detectImports(_)
detectImports(code) ==
  IF code = <<>> THEN <<>>
  ELSE IF Head(code) # <<>>
       THEN <<Head(code)>> \o detectImports(Tail(code))
       ELSE detectImports(Tail(code))

\* String.prototype.startsWith("@")
StartsWithAt(imp) == Len(imp) > 0 /\ imp[1] = "@"

\* deps[name] = "latest" for each of the names in turn: an object holds a
\* key once, at the place of its first assignment.
RECURSIVE SetKeys(_, _)
SetKeys(keys, names) ==
  IF names = <<>> THEN keys
  ELSE SetKeys(IF \E k \in 1..Len(keys) : keys[k] = Head(names)
               THEN keys ELSE Append(keys, Head(names)),
               Tail(names))

\* Variant of ManifestDeps: every detected import becomes a dependency.
ManifestDepsEveryImport(code, emitter) ==
  SetKeys(<<Compiler>>, detectImports(code) \o (IF emitter # <<>> THEN <<emitter>> ELSE <<>>))

\* Keys of the dependencies object of package.json (lines 95-107), in the
\* order JSON.stringify writes them.
ManifestDeps(code, emitter) ==
  SetKeys(<<Compiler>>,
          SelectSeq(detectImports(code), StartsWithAt)
            \o (IF emitter # <<>> THEN <<emitter>> ELSE <<>>))

\* Variant: the install failure reported with the exit code of the compile
\* failure branch.
InstallFailedVerdictStatus(text) ==
  [success |-> FALSE, diagnostics |-> <<"Install failed: ", text>>,
   exitCode |-> 1, emitterOutput |-> NullOutput]

\* The JSON documents main prints.
InstallFailedVerdict(text) ==
  [success |-> FALSE, diagnostics |-> <<"Install failed: ", text>>,
   exitCode |-> -1, emitterOutput |-> NullOutput]

CompiledVerdict(output, emitterOutput) ==
  [success |-> TRUE,
   diagnostics |-> IF output = "" THEN <<"(compiled successfully, no diagnostics)">>
                   ELSE <<output>>,
   exitCode |-> 0, emitterOutput |-> emitterOutput]

\* Variant of CompileFailedVerdict: exitCode is err.status ?? 0.
CompileFailedVerdictZero(stdout, stderr, status, emitterOutput) ==
  [success |-> FALSE, diagnostics |-> <<stdout, stderr>>,
   exitCode |-> IF status = <<>> THEN 0 ELSE status[1],
   emitterOutput |-> emitterOutput]

\* The document of the compile catch block (lines 167-180).
CompileFailedVerdict(stdout, stderr, status, emitterOutput) ==
  [success |-> FALSE, diagnostics |-> <<stdout, stderr>>,
   exitCode |-> IF status = <<>> THEN 1 ELSE status[1],
   emitterOutput |-> emitterOutput]

\* Text a subprocess leaves on a stream; exit status of a failed one
\* (<<>> = null, the process was killed at its timeout).
ProcTexts == {"", "error: x"}

\* What execSync captured from the compiler: stdout and stderr.
Captured == {[stdout |-> "", stderr |-> ""], [stdout |-> "warning: y", stderr |-> "error: x"]}

\* Lines 66-70: no argument, usage message and exit(1).
SbUsage(p) ==
  /\ sbPc[p] = "idle"
  /\ sbPc' = [sbPc EXCEPT ![p] = "usage"]
  /\ UNCHANGED <<orchVars, clock, tmp, sbCode, sbEmitter, sbDir, sbThrown, sbRan, sbOut>>

\* Lines 72-88: arguments read, tempDir named after Date.now().
SbStart(p, code, emitter) ==
  /\ sbPc[p] = "idle"
  /\ sbCode' = [sbCode EXCEPT ![p] = code]
  /\ sbEmitter' = [sbEmitter EXCEPT ![p] = emitter]
  /\ sbDir' = [sbDir EXCEPT ![p] = clock]
  /\ sbPc' = [sbPc EXCEPT ![p] = "mkdir"]
  /\ UNCHANGED <<orchVars, clock, tmp, sbThrown, sbRan, sbOut>>

\* Time passes.
SbTick ==
  /\ clock < MaxClock
  /\ clock' = clock + 1
  /\ UNCHANGED <<orchVars, tmp, sbPc, sbCode, sbEmitter, sbDir, sbThrown, sbRan, sbOut>>

\* A step inside the try block throws: control goes to the finally block.
SbThrow(p) ==
  /\ sbThrown' = [sbThrown EXCEPT ![p] = TRUE]
  /\ sbPc' = [sbPc EXCEPT ![p] = "finally"]

\* Line 91: mkdirSync(tempDir, {recursive: true}).
SbMkdir(p, ok) ==
  /\ sbPc[p] = "mkdir"
  /\ IF ok
     THEN /\ tmp' = [tmp EXCEPT ![sbDir[p]].exists = TRUE]
          /\ sbPc' = [sbPc EXCEPT ![p] = "snippet"]
          /\ UNCHANGED sbThrown
     ELSE SbThrow(p) /\ UNCHANGED tmp
  /\ UNCHANGED <<orchVars, clock, sbCode, sbEmitter, sbDir, sbRan, sbOut>>

\* Line 92: main.tsp is written (throws when the directory is gone).
SbWriteSnippet(p, ok) ==
  /\ sbPc[p] = "snippet"
  /\ IF ok /\ tmp[sbDir[p]].exists
     THEN /\ tmp' = [tmp EXCEPT ![sbDir[p]].main = <<sbCode[p]>>]
          /\ sbPc' = [sbPc EXCEPT ![p] = "manifest"]
          /\ UNCHANGED sbThrown
     ELSE SbThrow(p) /\ UNCHANGED tmp
  /\ UNCHANGED <<orchVars, clock, sbCode, sbEmitter, sbDir, sbRan, sbOut>>

\* Lines 95-124: package.json, and tspconfig.yaml when an emitter is given.
SbWriteManifest(p, ok) ==
  /\ sbPc[p] = "manifest"
  /\ IF ok /\ tmp[sbDir[p]].exists
     THEN /\ tmp' = [tmp EXCEPT
                       ![sbDir[p]].deps = ManifestDeps(sbCode[p], sbEmitter[p]),
                       ![sbDir[p]].config =
                          IF sbEmitter[p] # <<>> THEN sbEmitter[p] ELSE @]
          /\ sbPc' = [sbPc EXCEPT ![p] = "install"]
          /\ UNCHANGED sbThrown
     ELSE SbThrow(p) /\ UNCHANGED tmp
  /\ UNCHANGED <<orchVars, clock, sbCode, sbEmitter, sbDir, sbRan, sbOut>>

\* Lines 127-144: npm install; any failure (non-zero exit, timeout, missing
\* cwd) prints the install-failed document and returns.  The message is
\* err.stderr ?? err.stdout ?? "unknown error".
SbInstall(p, outcome, text) ==
  /\ sbPc[p] = "install"
  /\ LET spawnedOk == tmp[sbDir[p]].exists
         result == IF spawnedOk THEN outcome ELSE "fail"
         message == IF spawnedOk THEN text ELSE "unknown error"
     IN  /\ sbRan' = [sbRan EXCEPT ![p] = Append(@, [cmd |-> "install", outcome |-> result])]
         /\ IF result = "ok"
            THEN /\ sbPc' = [sbPc EXCEPT ![p] = "compile"]
                 /\ UNCHANGED sbOut
            ELSE /\ sbOut' = [sbOut EXCEPT ![p] = Append(@, InstallFailedVerdict(message))]
                 /\ sbPc' = [sbPc EXCEPT ![p] = "finally"]
  /\ UNCHANGED <<orchVars, clock, tmp, sbCode, sbEmitter, sbDir, sbThrown>>

\* collectOutputFiles (lines 40-62).  The result is the files object (a set
\* of entries keyed by path relative to base, the content kept as its
\* length), or the call throws: readdirSync and statSync are outside the
\* try, only readFileSync is inside it.
RECURSIVE collectOutputFiles(_, _)
RECURSIVE CollectEntries(_, _)
\* The loop over readdirSync(dir), lines 44-60; rel is dir relative to base.
CollectEntries(entries, rel) ==
  IF entries = <<>> THEN [thrown |-> FALSE, files |-> {}]
  ELSE LET e == Head(entries)
           relPath == Append(rel, e.name)
           first == IF e.kind = "dangling" THEN [thrown |-> TRUE, files |-> {}]
                    ELSE IF e.kind = "dir" THEN collectOutputFiles(e, relPath)
                    ELSE IF e.readable /\ e.length < MaxOutputChars
                    THEN [thrown |-> FALSE,
                          files |-> {[path |-> relPath, length |-> e.length]}]
                    ELSE [thrown |-> FALSE, files |-> {}]
           rest == CollectEntries(Tail(entries), rel)
       IN  IF first.thrown \/ rest.thrown THEN [thrown |-> TRUE, files |-> {}]
           ELSE [thrown |-> FALSE, files |-> first.files \cup rest.files]

collectOutputFiles(dir, rel) ==
  IF dir.kind = "none" THEN [thrown |-> FALSE, files |-> {}]
  ELSE IF ~dir.listable THEN [thrown |-> TRUE, files |-> {}]
  ELSE CollectEntries(dir.entries, rel)

\* emitter ? collectOutputFiles(outputDir, outputDir) : null (lines 158, 172)
EmitterOutput(emitter, collected) ==
  IF emitter # <<>> THEN [null |-> FALSE, files |-> collected.files] ELSE NullOutput

\* Lines 147-181: the compiler runs; its output, exit status and the
\* emitter output make the verdict.  dir1 / dir2: outputDir as the
\* collection in the try block / in the catch block finds it.
SbCompile(p, outcome, captured, dir1, dir2) ==
  /\ sbPc[p] = "compile"
  /\ sbPc' = [sbPc EXCEPT ![p] = "finally"]
  /\ LET emitter == sbEmitter[p]
         started == tmp[sbDir[p]].exists
         ok == outcome = "ok" /\ started
         \* err.status: the exit status of a compiler that reported errors,
         \* undefined when it was killed or could not be started
         status == IF outcome = "fail" /\ started THEN <<2>> ELSE <<>>
         stdout == IF started THEN captured.stdout ELSE ""
         stderr == IF started THEN captured.stderr ELSE ""
         c1 == collectOutputFiles(dir1, <<>>)
         c2 == collectOutputFiles(dir2, <<>>)
         collected1 == ~c1.thrown
         collected2 == ~c2.thrown
     IN  /\ sbRan' = [sbRan EXCEPT ![p] =
                        Append(@, [cmd |-> "compile",
                                   outcome |-> IF ok THEN "ok"
                                               ELSE IF outcome = "ok" THEN "fail"
                                               ELSE outcome,
                                   status |-> status,
                                   stdout |-> stdout, stderr |-> stderr,
                                   \* outputDir as each call of
                                   \* collectOutputFiles found it
                                   calls |-> IF emitter = <<>> THEN <<>>
                                             ELSE IF ~ok THEN <<dir2>>
                                             ELSE IF collected1 THEN <<dir1>>
                                             ELSE <<dir1, dir2>>])]
         /\ IF ok /\ (emitter = <<>> \/ collected1)
            THEN /\ sbOut' = [sbOut EXCEPT ![p] =
                                Append(@, CompiledVerdict(stdout,
                                                          EmitterOutput(emitter, c1)))]
                 /\ UNCHANGED sbThrown
            ELSE IF emitter = <<>> \/ collected2
            THEN /\ sbOut' = [sbOut EXCEPT ![p] =
                                Append(@, IF ok
                                          THEN CompileFailedVerdict("", "", <<>>,
                                                                    EmitterOutput(emitter, c2))
                                          ELSE CompileFailedVerdict(stdout, stderr, status,
                                                                    EmitterOutput(emitter, c2)))]
                 /\ UNCHANGED sbThrown
            ELSE /\ sbThrown' = [sbThrown EXCEPT ![p] = TRUE]
                 /\ UNCHANGED sbOut
  /\ UNCHANGED <<orchVars, clock, tmp, sbCode, sbEmitter, sbDir>>

\* Variant: rmSync without {recursive: true} fails on a directory that holds
\* files, and the failure is swallowed.
RemoveTempDirNonRecursive(disk, d) ==
  IF disk[d].main = <<>> /\ disk[d].deps = <<>> THEN [disk EXCEPT ![d] = NoDir] ELSE disk

\* Lines 182-188: the finally block removes tempDir; rmSync throwing (no
\* such directory) is ignored.  A propagating exception then ends the
\* process.
RemoveTempDir(disk, d) == [disk EXCEPT ![d] = NoDir]

SbCleanup(p) ==
  /\ sbPc[p] = "finally"
  /\ tmp' = RemoveTempDir(tmp, sbDir[p])
  /\ sbPc' = [sbPc EXCEPT ![p] = IF sbThrown[p] THEN "crashed" ELSE "done"]
  /\ UNCHANGED <<orchVars, clock, sbCode, sbEmitter, sbDir, sbThrown, sbRan, sbOut>>

SbNext ==
  \/ \E p \in Sandboxes : SbUsage(p)
  \/ \E p \in Sandboxes, code \in Snippets, emitter \in Emitters : SbStart(p, code, emitter)
  \/ SbTick
  \/ \E p \in Sandboxes, ok \in BOOLEAN : SbMkdir(p, ok)
  \/ \E p \in Sandboxes, ok \in BOOLEAN : SbWriteSnippet(p, ok)
  \/ \E p \in Sandboxes, ok \in BOOLEAN : SbWriteManifest(p, ok)
  \/ \E p \in Sandboxes, outcome \in ProcOutcomes, text \in ProcTexts :
       SbInstall(p, outcome, text)
  \/ \E p \in Sandboxes, outcome \in ProcOutcomes, captured \in Captured,
        dir1 \in OutputDirs :
       \E dir2 \in {dir1, NoOutputDir} : SbCompile(p, outcome, captured, dir1, dir2)
  \/ \E p \in Sandboxes : SbCleanup(p)

\* The sandbox on its own: the pipeline is not running.
SbInit ==
  /\ Init
  /\ opts = [mode |-> "agent", concurrency |-> Concurrency(1), model |-> DefaultModel]
  /\ results = [i \in Issues |-> Absent]

SbSpec == SbInit /\ [][SbNext]_vars

\* ================================================================ claims
InBacklog(i) == \E k \in 1..Len(rawIssues) : rawIssues[k] = i

InReport(i) == \E k \in 1..Len(report.issues) : report.issues[k] = i

\* The step is a call of executeAgent on issue i.
CallOf(i) == i \notin dispatched /\ i \in dispatched'

\* C1: a call of executeAgent on an issue whose result file exists and
\* parses spawns no agent process, writes neither a prompt nor a result
\* file, and returns the file content with error = null; consecutive such
\* calls on the same issue return the same TaskResult.
C1_CacheHitIdempotent ==
  /\ [][\A i \in Issues :
          (CallOf(i) /\ results[i].kind = "json")
            => /\ running' = running
               /\ spawned' = spawned
               /\ prompts' = prompts
               /\ results' = results
               /\ i \in returned'
               /\ last'.issue = i
               /\ last'.triageIssue = results[i]
               /\ last'.error = <<>>]_vars
  /\ [](\A i \in Issues : \A k \in 1..Len(hitTask[i]) : hitTask[i][k] = hitTask[i][1])

\* C1 witness: the second consecutive cache hit on an issue has returned.
C1_Witness ==
  \E i \in Issues : Len(hitTask[i]) = 2 /\ last.issue = i /\ last.path = "cached"
                    /\ i \notin spawned /\ run = 2

\* C2: when a cli run ends, executeAgent has been invoked and has returned
\* for every backlog issue, whatever happened to the others, and every
\* issue whose result file parses is in the written report.
C2_FailureIsolation ==
  (pc = "done" /\ opts.mode = "cli")
    => \A i \in Issues :
         InBacklog(i) => /\ i \in dispatched
                         /\ i \in returned
                         /\ (results[i].kind = "json" => report.written /\ InReport(i))

\* C2 witness: the first issue's agent ran and left a malformed result, and
\* both later issues were run and recorded.
C2_Witness ==
  /\ pc = "done" /\ opts.mode = "cli" /\ opts.concurrency = Concurrency(2)
  /\ Len(rawIssues) = 3
  /\ rawIssues[1] \in spawned /\ results[rawIssues[1]].kind = "corrupt"
  /\ rawIssues[2] \in spawned /\ rawIssues[3] \in spawned
  /\ report.written /\ report.issues = <<rawIssues[2], rawIssues[3]>>

\* Batch of the issue at backlog position k under concurrency n.
BatchOf(k, n) == (k - 1) \div n

\* An issue has settled: its executeAgent returned and its process is over.
Settled(i) == i \in returned /\ i \notin running

\* C3: with concurrency N >= 2, an issue of a later batch is dispatched only
\* when every issue of each earlier batch has settled.
C3_BatchBarrier ==
  (~opts.concurrency.nan /\ opts.concurrency.val >= 2)
    => \A j, k \in 1..Len(rawIssues) :
         (BatchOf(j, opts.concurrency.val) < BatchOf(k, opts.concurrency.val)
            /\ rawIssues[k] \in dispatched)
           => Settled(rawIssues[j])

\* C3 witness: the agent of the single issue of batch 2 is running after a
\* first batch with a cached and a spawned member.
C3_Witness ==
  /\ opts.concurrency = Concurrency(2) /\ Len(rawIssues) = 3
  /\ running = {rawIssues[3]}
  /\ rawIssues[1] \notin spawned /\ rawIssues[2] \in spawned

\* C4: the number of agent processes alive at once never exceeds the
\* concurrency limit N >= 1.
C4_ConcurrencyCeiling ==
  (~opts.concurrency.nan /\ opts.concurrency.val >= 1)
    => Cardinality(running) <= opts.concurrency.val

\* C4 witness: under N = 1 an agent process is alive (the ceiling is met).
C4_Witness ==
  opts.concurrency = Concurrency(1) /\ Cardinality(running) = 1
  /\ Cardinality(dispatched) = 2

\* The next executor of the current batch could start now.
SiblingCanStart == ENABLED BatchDispatch

\* C5: with N >= 2, while the agent process of one item of a batch is
\* running, a sibling of the batch that has not started yet can start: its
\* start does not wait for the running process.
C5_BatchSiblingsConcurrent ==
  (/\ pc = "map"
   /\ running # {}
   /\ \E k \in 1..Len(batch) : batch[k] \notin dispatched)
    => SiblingCanStart

\* C6: a call that ran the agent returns the content of the result file
\* whenever that file is present and parses, after every exit condition; a
\* non-zero exit or a timeout is returned as an error string naming the
\* exit condition, and the call returns (nothing propagates).
C6_ReadAfterAnyExit ==
  last.path = "ran"
    => /\ last.issue \in returned
       /\ pc # "fatal"
       /\ (results[last.issue].kind = "json" => last.triageIssue = results[last.issue])
       /\ (last.exit = "1" => last.error # <<>> /\ SubSeq(last.error, 1, 2) = <<"Agent exited with code ", "1">>)
       /\ (last.exit = "timeout"
             => last.error # <<>> /\ SubSeq(last.error, 1, 2) = <<"Agent exited with code ", "unknown">>)

\* C6 witness: an agent that timed out had written a result, and the call
\* returned it together with the error string.
C6_Witness ==
  /\ last.path = "ran" /\ last.exit = "timeout" /\ last.lookup = Absent
  /\ last.triageIssue.kind = "json" /\ last.error # <<>>

\* C7: a call that ran the agent and finds no parseable result file
\* afterwards returns no TaskResult and a non-null error, after every exit
\* condition.
C7_NoResultIsError ==
  (last.path = "ran" /\ results[last.issue].kind # "json")
    => last.triageIssue = NullTask /\ last.error # <<>>

\* C7 witness: the agent exited 0 without leaving a result file.
C7_Witness ==
  /\ last.path = "ran" /\ last.exit = "0" /\ results[last.issue] = Absent
  /\ last.triageIssue = NullTask
  /\ last.error = <<"Agent did not produce a result file">>

C10_InstallFailureVerdict ==
  \A p \in Sandboxes :
    (sbRan[p] # <<>> /\ sbRan[p][1].outcome # "ok")
      => /\ Len(sbRan[p]) = 1
         /\ sbRan[p][1].cmd = "install"
         /\ Len(sbOut[p]) = 1
         /\ sbOut[p][1].success = FALSE
         /\ sbOut[p][1].exitCode = -1
         /\ sbOut[p][1].diagnostics[1] = "Install failed: "
         /\ sbOut[p][1].emitterOutput = NullOutput

\* C10 witness: an install that timed out, with an emitter requested, ended
\* with the verdict printed.
C10_Witness ==
  /\ sbPc[1] = "done" /\ sbEmitter[1] # <<>>
  /\ sbRan[1] = <<[cmd |-> "install", outcome |-> "timeout"]>>
  /\ Len(sbOut[1]) = 1

\* The invocation ran the compiler (its install succeeded) and has left the
\* compile block.
Compiled(p) == Len(sbRan[p]) = 2 /\ sbRan[p][2].cmd = "compile"

\* C11 as stated: after a successful install, a compile that exits 0 prints
\* the verdict success = true, exitCode = 0, diagnostics = stdout (or the
\* placeholder); a compile that fails or times out prints success = false,
\* exitCode = exit status (1 when none), diagnostics = stdout then stderr;
\* and no exception leaves the compile block.
C11_CompileVerdict ==
  \A p \in Sandboxes :
    Compiled(p)
      => LET c == sbRan[p][2]
         IN  /\ ~sbThrown[p]
             /\ Len(sbOut[p]) = 1
             /\ c.outcome = "ok"
                  => /\ sbOut[p][1].success = TRUE
                     /\ sbOut[p][1].exitCode = 0
                     /\ sbOut[p][1].diagnostics =
                          (IF c.stdout = ""
                           THEN <<"(compiled successfully, no diagnostics)">>
                           ELSE <<c.stdout>>)
             /\ c.outcome # "ok"
                  => /\ sbOut[p][1].success = FALSE
                     /\ sbOut[p][1].exitCode = (IF c.status = <<>> THEN 1 ELSE c.status[1])
                     /\ sbOut[p][1].diagnostics = <<c.stdout, c.stderr>>

\* The run of the scenario: cli mode, concurrency 2, a backlog of three.
Scenario ==
  /\ opts.mode = "cli" /\ opts.concurrency = Concurrency(2)
  /\ Len(rawIssues) = 3

\* C12: in a cli run with concurrency 2 over the backlog [A, B, C], the
\* batches are [A, B] and then [C], C being dispatched only once A and B
\* have settled; a call on A with a valid cached result returns it without
\* a process; the call on B whose agent timed out without leaving a result
\* returns no TaskResult and an error string; and when the run ends with A
\* cached, B timed out without a result and C exited 0 with a valid result,
\* the written report lists exactly A and C.
C12_EndToEnd ==
  /\ [](Scenario
         => LET A == rawIssues[1]
                B == rawIssues[2]
                C == rawIssues[3]
            IN  /\ (pc = "map" => batch \in {<<A, B>>, <<C>>})
                /\ (C \in dispatched => Settled(A) /\ Settled(B))
                /\ (/\ last.issue = B /\ last.path = "ran" /\ last.exit = "timeout"
                    /\ results[B].kind # "json")
                     => last.triageIssue = NullTask /\ last.error # <<>>
                /\ (/\ pc = "done"
                    /\ A \notin spawned
                    /\ exited[B] = "timeout" /\ results[B].kind # "json"
                    /\ exited[C] = "0" /\ results[C].kind = "json")
                     => report.written /\ report.issues = <<A, C>>)
  /\ [][(Scenario /\ CallOf(rawIssues[1]) /\ results[rawIssues[1]].kind = "json")
          => /\ rawIssues[1] \notin spawned' /\ running' = running
             /\ rawIssues[1] \in returned'
             /\ last'.path = "cached" /\ last'.error = <<>>]_vars

\* C12 witness: the scenario has run to its end - A was served from the
\* cache, B timed out leaving no file, C exited 0 with a valid result - and
\* the report lists A and C.
C12_Witness ==
  /\ Scenario /\ pc = "done"
  /\ rawIssues[1] \in returned /\ rawIssues[1] \notin spawned
  /\ exited[rawIssues[2]] = "timeout" /\ results[rawIssues[2]] = Absent
  /\ exited[rawIssues[3]] = "0" /\ results[rawIssues[3]].kind = "json"
  /\ report.written /\ report.issues = <<rawIssues[1], rawIssues[3]>>

\* C13 as stated: whatever the result files hold, the summary of a written
\* report has totalIssues equal to the number of results in the report,
\* and bugs + featureRequests + docsBugs + unknown equal to totalIssues.
C13_SummaryConsistent ==
  report.written
    => /\ report.summary.totalIssues = Len(report.issues)
       /\ report.summary.bugs + report.summary.featureRequests
            + report.summary.docsBugs + report.summary.unknown
          = report.summary.totalIssues

C15_InputErrorAbortsOnlyItem ==
  (pc \in {"fatal", "done"} /\ noAuthor # {})
    => \A j \in Issues :
         (InBacklog(j) /\ j \notin noAuthor)
           => j \in prompts /\ (opts.mode = "cli" => j \in dispatched)

\* C16: when the fetch of the backlog fails the run is over with exit
\* status 1: the prompts directory holds no prompt, no executeAgent call was
\* made, no agent process was spawned and no report was written.
C16_FetchFailureFatal ==
  ghFailed
    => /\ pc = "fatal"
       /\ prompts = {}
       /\ dispatched = {} /\ spawned = {} /\ running = {}
       /\ ~report.written

\* C16 witness: the fetch of a second run failed, after a first run that
\* served an issue from its result file.
C16_Witness ==
  /\ ghFailed /\ pc = "fatal" /\ run = 2
  /\ \E i \in Issues : results[i].kind = "json" /\ hitTask[i] # <<>>

\* C17 as stated: a reader of a result file - the cache check of
\* executeAgent, aggregateResults - never finds the file of a backlog issue
\* partially written.
C17_AtomicResultWrite ==
  /\ [][\A i \in Issues : CallOf(i) => results[i].kind # "partial"]_vars
  /\ [][(pc = "aggregate" /\ pc' = "done")
          => \A i \in Issues : InBacklog(i) => results[i].kind # "partial"]_vars

\* The invocation has named its directory and has not yet left main.
SbActive(p) == sbPc[p] \notin {"idle", "usage", "done", "crashed"}

\* C18 as stated: two invocations that are both between the naming of their
\* directory and the end of main use different directories, and the cleanup
\* of one removes no directory the other is still using.
C18_SandboxDirsDistinct ==
  /\ [](\A p, q \in Sandboxes :
          (p # q /\ SbActive(p) /\ SbActive(q)) => sbDir[p] # sbDir[q])
  /\ [][\A p, q \in Sandboxes :
          (p # q /\ sbPc[p] = "finally" /\ sbPc'[p] # "finally" /\ SbActive(q)
             /\ tmp[sbDir[q]].exists)
            => tmp'[sbDir[q]].exists]_vars

\* C19: the backlog of a run names no issue twice, executeAgent is called
\* at most once per issue in a run, and the result file a job writes is the
\* one of its own issue: a step changes the result file of issue i only
\* while the job of issue i is the one in progress.
C19_OneJobPerResultFile ==
  /\ [](\A j, k \in 1..Len(rawIssues) : rawIssues[j] = rawIssues[k] => j = k)
  /\ [](\A i \in Issues : jobs[i] <= 1)
  /\ [][\A i \in Issues : results'[i] # results[i] => (cur = i /\ i \in spawned)]_vars

\* C19 witness: the run ended over a backlog that merges an issue of the
\* bug list with an unlabeled issue listed before it, both jobs having run
\* an agent that wrote a result.
C19_Witness ==
  /\ pc = "done" /\ rawIssues = <<1, 2>>
  /\ jobs[1] = 1 /\ jobs[2] = 1 /\ spawned = {1, 2}
  /\ results[1].kind = "json" /\ results[2].kind = "json"

\* The issues of the fetched backlog.
Backlog == {rawIssues[k] : k \in 1..Len(rawIssues)}

\* C20: the set-up step of a run empties the prompts directory and leaves
\* the result files alone, as do the fetch and the writing of the prompts;
\* from then on the directory holds prompts of the current backlog only;
\* every prompt of the backlog is written before the first executeAgent
\* call; and when the run ends the directory holds exactly one prompt per
\* backlog issue.
C20_PromptsRegenerated ==
  /\ [][(pc = "start" /\ pc' # "start") => (prompts' = {} /\ results' = results)]_vars
  /\ [][(pc \in {"start", "fetch", "prompts"}) => (results' = results)]_vars
  /\ [](pc # "start" => prompts \subseteq Backlog)
  /\ [](dispatched # {} => prompts = Backlog)
  /\ [](pc = "done" => (prompts = Backlog /\ Cardinality(prompts) = Len(rawIssues)))

\* C20 witness: a second run over a backlog of one issue has ended with that
\* issue's prompt alone, the first run having handled issue 2 as well; the
\* result file of issue 2 is still there.
C20_Witness ==
  /\ run = 2 /\ pc = "done" /\ rawIssues = <<1>> /\ prompts = {1}
  /\ hitTask[2] # <<>> /\ results[2].kind = "json"

\* C21 as stated: no step changes the content of an existing, parseable
\* result file or deletes a result file, and the link and the actions the
\* aggregator derives are in the report only.
C21_ResultFilesImmutable ==
  /\ [][\A i \in Issues : results[i].kind = "json" => results'[i] = results[i]]_vars
  /\ [][\A i \in Issues : results[i].kind # "absent" => results'[i].kind # "absent"]_vars
  /\ [][(pc = "aggregate" /\ pc' = "done") => results' = results]_vars

\* C21 amended: a parseable result file is changed by one step only - the
\* token-usage backfill of the executeAgent call whose agent wrote it, which
\* sets its tokenUsage and nothing else; once that call has returned no step
\* of the pipeline changes the file, and no step deletes a result file.  The
\* aggregation changes no result file: an entry of the report is its result
\* file with the playground link and the actions set, the file has neither.
C21_ImmutableOncePersisted ==
  /\ [][\A i \in Issues :
          (results[i].kind = "json" /\ results'[i] # results[i])
            => /\ cur = i /\ epc = "execSync" /\ epc' = "idle"
               /\ results'[i] = [results[i] EXCEPT !.tokenUsage = last'.tokenUsage]]_vars
  /\ [][\A i \in Issues :
          (results[i].kind = "json" /\ cur # i) => results'[i] = results[i]]_vars
  /\ [][\A i \in Issues : results[i].kind # "absent" => results'[i].kind # "absent"]_vars
  /\ [][(pc = "aggregate" /\ pc' = "done") => results' = results]_vars
  /\ [](pc = "done"
          => \A k \in 1..Len(report.entries) :
               LET file == results[report.issues[k]]
               IN  /\ file.playgroundLink = <<>> /\ file.actions = <<>>
                   /\ [report.entries[k] EXCEPT !.playgroundLink = <<>>,
                                                !.actions = <<>>] = file)

\* C21 witness: a second run has ended; its report holds an entry with a
\* derived link and an action for an issue served from the result file that
\* the first run's call had backfilled, and the file has neither.
C21_Witness ==
  /\ run = 2 /\ pc = "done" /\ report.written
  /\ \E k \in 1..Len(report.entries) :
       /\ hitTask[report.issues[k]] # <<>>
       /\ results[report.issues[k]].tokenUsage = <<2, 1>>
       /\ report.entries[k].playgroundLink # <<>>
       /\ report.entries[k].actions # <<>>
       /\ results[report.issues[k]].playgroundLink = <<>>
       /\ results[report.issues[k]].actions = <<>>

\* The step is the end of an executeAgent call that ran the agent.
AgentCallEnds == epc = "execSync" /\ epc' = "idle"

\* C22 as stated: when a call that ran the agent ends, the result file is
\* rewritten with the usage extracted from the output as its tokenUsage if
\* a usage was extracted, the file parses and its tokenUsage is missing or
\* zero (both counts 0); in every other case the file is left as it is.
C22_BackfillRewrite ==
  [][AgentCallEnds
       => LET file == results[cur]
              usage == last'.tokenUsage
          IN  IF /\ usage # <<>>
                 /\ file.kind = "json"
                 /\ (file.tokenUsage = <<>> \/ file.tokenUsage = <<0, 0>>)
              THEN /\ results'[cur] = [file EXCEPT !.tokenUsage = usage]
                   /\ last'.triageIssue = results'[cur]
              ELSE results'[cur] = file]_vars

\* The numbers the text labels with the word, in either convention:
\* "<n> <word> tokens" or "<word> tokens: <n>".
Labelled(text, word) ==
  {text[k].n : k \in {j \in 1..Len(text) :
                        /\ text[j].t = "num"
                        /\ \/ /\ j + 2 <= Len(text)
                              /\ text[j + 1].t = word /\ text[j + 2].t = "tokens"
                           \/ /\ j > 3
                              /\ text[j - 3].t = word /\ text[j - 2].t = "tokens"
                              /\ text[j - 1].t = ":"}}

\* The numbers the text gives as "total tokens: <n>".
Totals(text) ==
  {text[k].n : k \in {j \in 4..Len(text) :
                        /\ text[j].t = "num" /\ text[j - 3].t = "total"
                        /\ text[j - 2].t = "tokens" /\ text[j - 1].t = ":"}}

Scoped(code) == {code[k] : k \in {j \in 1..Len(code) : StartsWithAt(code[j])}}

\* Position of the first occurrence of x in the sequence s.
First(s, x) == CHOOSE k \in 1..Len(s) : s[k] = x /\ \A j \in 1..(k - 1) : s[j] # x

\* The invocation has written its manifest in this step.
ManifestWritten(p) == sbPc[p] = "manifest" /\ sbPc'[p] = "install"

\* C24 as stated: what detectImports returns for the snippet of an
\* invocation holds exactly the import identifiers that start with "@",
\* each once, in the order of their first occurrence.
C24_DetectorScopedSet ==
  \A p \in Sandboxes :
    sbRan[p] # <<>>
      => LET r == detectImports(sbCode[p])
         IN  /\ {r[k] : k \in 1..Len(r)} = Scoped(sbCode[p])
             /\ \A j, k \in 1..Len(r) : r[j] = r[k] => j = k
             /\ \A j, k \in 1..Len(r) :
                  j < k => First(sbCode[p], r[j]) < First(sbCode[p], r[k])

\* C24 amended: detectImports returns the identifier of every import
\* declaration its pattern matches, in source order, with repetitions and
\* whatever its first character, and nothing for a declaration it does not
\* match; the manifest written from it holds, besides the compiler and the
\* emitter, exactly the identifiers that start with "@", each once, in the
\* order of their first occurrence.
C24_ImportsThenScoped ==
  /\ [](\A p \in Sandboxes :
          sbRan[p] # <<>>
            => LET code == sbCode[p]
                   r == detectImports(code)
                   matched == {k \in 1..Len(code) : code[k] # <<>>}
               IN  /\ Len(r) = Cardinality(matched)
                   /\ \A k \in matched :
                        r[Cardinality({j \in matched : j <= k})] = code[k])
  /\ [][\A p \in Sandboxes :
          ManifestWritten(p)
            => LET code == sbCode[p]
                   deps == tmp'[sbDir[p]].deps
                   others == {Compiler} \cup (IF sbEmitter[p] # <<>> THEN {sbEmitter[p]} ELSE {})
               IN  /\ \A j, k \in 1..Len(deps) : deps[j] = deps[k] => j = k
                   /\ {deps[k] : k \in 1..Len(deps)} \ others = Scoped(code) \ others
                   /\ Scoped(code) \subseteq {deps[k] : k \in 1..Len(deps)}
                   /\ \A a, b \in Scoped(code) \ {Compiler} :
                        First(code, a) < First(code, b)
                          => First(deps, a) < First(deps, b)]_vars

\* C24 witness: the manifest of a snippet with a relative import, an
\* unmatched declaration, a repeated import and an import of the compiler
\* has been written.
C24_Witness ==
  \E p \in Sandboxes :
    /\ sbPc[p] = "install" /\ sbEmitter[p] = <<>>
    /\ sbCode[p] = <<Relative, <<>>, Openapi3, Http, Http, Compiler>>
    /\ tmp[sbDir[p]].deps = <<Compiler, Openapi3, Http>>

\* C25: the manifest an invocation writes lists the compiler, every import
\* of its snippet that starts with "@" and, when an emitter was requested,
\* the emitter - each once and nothing else; the emitter configuration is
\* written with the requested emitter, and is not written when none was
\* requested.
C25_ManifestExact ==
  [][\A p \in Sandboxes :
       ManifestWritten(p)
         => LET deps == tmp'[sbDir[p]].deps
                requested == sbEmitter[p] # <<>>
            IN  /\ {deps[k] : k \in 1..Len(deps)}
                     = {Compiler} \cup Scoped(sbCode[p])
                         \cup (IF requested THEN {sbEmitter[p]} ELSE {})
                /\ Len(deps) = Cardinality({deps[k] : k \in 1..Len(deps)})
                /\ requested => tmp'[sbDir[p]].config = sbEmitter[p]
                /\ ~requested => tmp'[sbDir[p]].config = tmp[sbDir[p]].config]_vars

\* C25 witness: an invocation with an emitter and a snippet with a scoped
\* and a relative import has written its manifest and its configuration.
C25_Witness ==
  \E p \in Sandboxes :
    /\ sbPc[p] = "install" /\ sbEmitter[p] = Openapi3
    /\ sbCode[p] = <<Http, Relative>>
    /\ tmp[sbDir[p]].deps = <<Compiler, Http, Openapi3>>
    /\ tmp[sbDir[p]].config = Openapi3

\* The regular files among the entries of a directory that can be read and
\* whose text is shorter than the limit.
SmallReadable(dir) ==
  {e \in {dir.entries[k] : k \in 1..Len(dir.entries)} :
     e.kind = "file" /\ e.readable /\ e.length < MaxOutputChars}

\* The readable regular files under an output directory, keyed by path
\* relative to it (the directories here are at most two levels deep).
ReadableUnder(dir) ==
  {[path |-> <<e.name>>, length |-> e.length] : e \in SmallReadable(dir)}
    \cup UNION {{[path |-> <<d.name, e.name>>, length |-> e.length] :
                   e \in SmallReadable(d)} :
                d \in {x \in {dir.entries[k] : k \in 1..Len(dir.entries)} :
                         x.kind = "dir"}}

\* C26 as stated: an invocation that ran the compiler with an emitter
\* requested prints a verdict whose emitterOutput holds exactly the readable
\* regular files shorter than 50,000 characters found under the output
\* directory, keyed by relative path, after a successful and after a failed
\* compile alike; with no emitter requested emitterOutput is null.
C26_EmitterOutputCollected ==
  \A p \in Sandboxes :
    Compiled(p)
      => LET c == sbRan[p][2]
         IN  /\ Len(sbOut[p]) = 1
             /\ sbOut[p][1].emitterOutput =
                  (IF sbEmitter[p] = <<>> THEN NullOutput
                   ELSE [null |-> FALSE,
                         files |-> ReadableUnder(c.calls[1])])

\* C27 as stated: whatever the output directory holds, an invocation that
\* ran the compiler with an emitter requested ends without an exception,
\* has printed its verdict, and the verdict's success and exitCode are the
\* ones of the compile step.
C27_CollectionErrorsSwallowed ==
  \A p \in Sandboxes :
    (Compiled(p) /\ sbEmitter[p] # <<>>)
      => LET c == sbRan[p][2]
         IN  /\ ~sbThrown[p]
             /\ Len(sbOut[p]) = 1
             /\ sbOut[p][1].success = (c.outcome = "ok")
             /\ sbOut[p][1].exitCode =
                  (IF c.outcome = "ok" THEN 0
                   ELSE IF c.status = <<>> THEN 1 ELSE c.status[1])

\* An optional string is set: neither absent nor empty.
Has(v) == v # <<>> /\ v # <<"">>

\* Number of aggregated results that name model m, and the place of the
\* first of them.
Naming(m) == {k \in 1..Len(report.entries) : report.entries[k].model = m}

FirstNaming(m) == CHOOSE k \in Naming(m) : \A j \in Naming(m) : k <= j

\* C28: the model of a written report is the configured model when no
\* aggregated result names a model; otherwise it is a model named by an
\* aggregated result, no other model is named more often, and a model named
\* as often is first named later in backlog order.
C28_ReportModel ==
  report.written
    => LET named == {m \in Models : Has(m) /\ Naming(m) # {}}
       IN  IF named = {} THEN report.model = opts.model
           ELSE /\ report.model \in named
                /\ \A m \in named \ {report.model} :
                     \/ Cardinality(Naming(m)) < Cardinality(Naming(report.model))
                     \/ /\ Cardinality(Naming(m)) = Cardinality(Naming(report.model))
                        /\ FirstNaming(report.model) < FirstNaming(m)

\* C28 witness: a tie - of three results aggregated the first names no
\* model and the two others name different ones; the report has the model
\* of the second.
C28_Witness ==
  /\ report.written /\ Len(report.entries) = 3
  /\ report.entries[1].model = <<>>
  /\ report.entries[2].model = <<"claude-opus-4">>
  /\ report.entries[3].model = <<"gpt-5">>
  /\ report.model = <<"claude-opus-4">>

\* The labels of the actions the rules of C29 give for a result file, in
\* the order of the rules.
RuleLabels(f) ==
  (IF Has(f.suggestedArea) /\ f.suggestedArea[1] \notin f.labels
   THEN <<[label |-> <<"Add ">> \o f.suggestedArea, type |-> "area"]>> ELSE <<>>)
  \o (IF f.category = "bug" /\ f.reproStatus = "missing"
      THEN <<[label |-> <<"Request repro">>, type |-> "comment"]>> ELSE <<>>)
  \o (IF f.verification = "fixed"
      THEN <<[label |-> <<"Close as fixed">>, type |-> "close"]>> ELSE <<>>)
  \o (IF f.reproStatus = "generated" /\ Has(f.reproCode)
      THEN <<[label |-> <<"Share repro">>, type |-> "comment"]>> ELSE <<>>)

\* C29: the actions of every aggregated entry are the ones its rules give -
\* label change iff suggestedArea is set and not among the labels, request
\* repro iff bug without repro, close iff fixed, share repro iff a generated
\* repro with code - in that order, one per rule, each with a label, an
\* icon, a command and a type.
C29_ActionsByRule ==
  report.written
    => \A k \in 1..Len(report.entries) :
         LET f == results[report.issues[k]]
             acts == report.entries[k].actions
         IN  /\ [j \in 1..Len(acts) |-> [label |-> acts[j].label, type |-> acts[j].type]]
                  = RuleLabels(f)
             /\ \A j \in 1..Len(acts) :
                  /\ acts[j].icon # ""
                  /\ acts[j].command # <<>>
                  /\ acts[j].label # <<>>

\* C29 witness: an entry to which the label rule, the close rule and the
\* share rule apply has its three actions in that order.
C29_Witness ==
  /\ report.written /\ Len(report.entries) >= 1
  /\ LET acts == report.entries[1].actions
     IN  /\ Len(acts) = 3
         /\ acts[1].type = "area" /\ acts[2].type = "close"
         /\ acts[3].label = <<"Share repro">>

\* The emitters of a result file: compilerOptions.emit when present,
\* otherwise the emitter field, otherwise none.
ClaimedEmitters(f) ==
  IF f.emit.present THEN f.emit.list
  ELSE IF Has(f.emitter) THEN f.emitter
  ELSE <<>>

\* C30: the link of an aggregated entry is the one derived from the
\* file's reproCode and emitters when the file has reproCode and no link,
\* and the link of the file otherwise; two entries made from equal files
\* have equal links.
C30_PlaygroundLink ==
  report.written
    => /\ \A k \in 1..Len(report.entries) :
            LET f == results[report.issues[k]]
            IN  report.entries[k].playgroundLink =
                  (IF Has(f.reproCode) /\ ~Has(f.playgroundLink)
                   THEN buildPlaygroundLink(f.reproCode, ClaimedEmitters(f))
                   ELSE f.playgroundLink)
       /\ \A j, k \in 1..Len(report.entries) :
            results[report.issues[j]] = results[report.issues[k]]
              => report.entries[j].playgroundLink = report.entries[k].playgroundLink

\* C30 witness: an entry got a link derived from its code and the emitters
\* of compilerOptions.emit, although its emitter field was set too.
C30_Witness ==
  /\ report.written /\ Len(report.entries) >= 1
  /\ results[report.issues[1]].playgroundLink = <<>>
  /\ results[report.issues[1]].emitter # <<>>
  /\ report.entries[1].playgroundLink =
       <<"https://typespec.io/playground?", "c=", "lzutf8-base64:", "model M {}",
         "&e=", "@typespec/openapi3", ",", "@typespec/json-schema">>

\* The place of issue i in the backlog.
BacklogPlace(i) == CHOOSE k \in 1..Len(rawIssues) : rawIssues[k] = i

\* C31: whatever the order in which the result files were completed, the
\* report made by an aggregation lists exactly the backlog issues that have
\* a parseable result file, each once and in backlog order, its summary
\* counts them by the category of the file of each, and the dashboard's
\* default rows are these issues by descending number.
C31_OrderIndependent ==
  [][(pc = "aggregate" /\ pc' = "done")
       => LET have == {i \in Issues : InBacklog(i) /\ results[i].kind = "json"}
              list == report'.issues
              rows == IssueTableRows(list, DefaultSortDir)
          IN  /\ {list[k] : k \in 1..Len(list)} = have
              /\ Len(list) = Cardinality(have)
              /\ \A j, k \in 1..Len(list) :
                   j < k => BacklogPlace(list[j]) < BacklogPlace(list[k])
              /\ report'.summary.totalIssues = Cardinality(have)
              /\ report'.summary.bugs
                   = Cardinality({i \in have : results[i].category = "bug"})
              /\ report'.summary.featureRequests
                   = Cardinality({i \in have : results[i].category = "feature-request"})
              /\ {rows[k] : k \in 1..Len(rows)} = have
              /\ Len(rows) = Len(list)
              /\ \A j, k \in 1..Len(rows) : j < k => rows[j] > rows[k]]_vars

\* C31 witness: a report of three issues whose result files were completed
\* in an order that is not the backlog order, the backlog order itself not
\* being by descending number.
C31_Witness ==
  /\ pc = "done" /\ report.written /\ Len(report.issues) = 3
  /\ Len(completed) = 3 /\ completed # report.issues
  /\ report.issues = rawIssues
  /\ \E j, k \in 1..3 : j < k /\ report.issues[j] < report.issues[k]

\* C32 as stated: every agent process ends (its timeout bounds it), every
\* call of executeAgent returns, the run of orchestrate ends, and a step
\* that ends the process of one issue ends no other process.
C32_BoundedProcesses ==
  /\ \A i \in Issues : (i \in running) ~> (i \notin running)
  /\ \A i \in Issues : (cur = i /\ epc = "execSync") ~> (i \in returned)
  /\ <>(pc \in {"done", "fatal"})
  /\ [][\A i, j \in Issues :
          (i # j /\ i \in running /\ i \notin running' /\ j \in running)
            => j \in running']_vars

\* The aggregated results that report a positive duration.
Timed == {k \in 1..Len(report.issues) :
            /\ results[report.issues[k]].triageDurationSeconds # <<>>
            /\ results[report.issues[k]].triageDurationSeconds[1] > 0}

DurationAt(k) == results[report.issues[k]].triageDurationSeconds[1]

RECURSIVE Total(_, _)
Total(f, set) ==
  IF set = {} THEN 0
  ELSE LET k == CHOOSE x \in set : TRUE IN f[k] + Total(f, set \ {k})

\* Two durations (hundredths of a second) are equal up to rounding to one
\* decimal.
Near(a, b) == a - b \in -5..5

\* C33: in a written report the cumulative duration is the sum of the
\* positive durations of the aggregated results, min and max are the
\* smallest and the largest of them, the average is the sum divided by
\* their number - each up to rounding to one decimal, and all four 0 when
\* there is none; the token totals are the sums of the input and of the
\* output counts of all aggregated results, a missing usage counting 0.
C33_TimingAndTokens ==
  report.written
    => LET all == 1..Len(report.issues)
           sum == Total([k \in Timed |-> DurationAt(k)], Timed)
           usage(k) == results[report.issues[k]].tokenUsage
           in == [k \in all |-> IF usage(k) = <<>> THEN 0 ELSE usage(k)[1]]
           out == [k \in all |-> IF usage(k) = <<>> THEN 0 ELSE usage(k)[2]]
       IN  /\ IF Timed = {}
              THEN report.timing = [cumulative |-> 0, avg |-> 0, min |-> 0, max |-> 0]
              ELSE /\ Near(report.timing.cumulative, sum)
                   /\ report.timing.avg * Cardinality(Timed) - sum
                        \in (-5 * Cardinality(Timed))..(5 * Cardinality(Timed))
                   /\ \E k \in Timed : /\ Near(report.timing.min, DurationAt(k))
                                       /\ \A j \in Timed : DurationAt(k) <= DurationAt(j)
                   /\ \E k \in Timed : /\ Near(report.timing.max, DurationAt(k))
                                       /\ \A j \in Timed : DurationAt(k) >= DurationAt(j)
           /\ report.tokenUsage.totalInput = Total(in, all)
           /\ report.tokenUsage.totalOutput = Total(out, all)

\* C33 witness: three results aggregated, one without a positive duration;
\* the timing is the one of the two others (1.25 s and 2.4 s) and the
\* token totals count the three.
C33_Witness ==
  /\ report.written /\ Len(report.issues) = 3
  /\ results[report.issues[1]].triageDurationSeconds = <<0>>
  /\ results[report.issues[2]].triageDurationSeconds = <<125>>
  /\ results[report.issues[3]].triageDurationSeconds = <<240>>
  /\ report.timing = [cumulative |-> 370, avg |-> 180, min |-> 130, max |-> 240]
  /\ report.tokenUsage.totalInput = 8

\* The document is a TriageIssue: its enumerated fields hold values of
\* their types (types.ts:8-14).
SchemaValid(f) ==
  /\ f.kind = "json"
  /\ f.category \in {"bug", "feature-request", "docs-bug", "unknown"}
  /\ f.reproStatus \in {"has-repro", "missing", "generated", "unable-to-repro"}
  /\ f.verification \in {"still-reproduces", "fixed", "compile-error", "not-verified"}

\* C34 as stated: when a call whose agent was killed at its timeout ends,
\* the result it returns is the file the agent left only if that file is a
\* valid TriageIssue, and the call returns and leaves on disk what it would
\* after a clean exit of the agent.
C34_ValidatedAfterTimeout ==
  [][(AgentCallEnds /\ last'.exit = "timeout")
       => LET clean == ReadResult(results[cur], "0", last'.output)
          IN  /\ last'.triageIssue.kind = "json" => SchemaValid(results[cur])
              /\ last'.triageIssue = clean.triageIssue
              /\ results'[cur] = clean.file]_vars

\* C35: in agent mode no executeAgent call is made and no agent process
\* exists at any point of the run; when the run comes to its aggregation
\* every fetched issue has its prompt file, and the aggregation - in agent
\* mode as in cli mode - reports the backlog issues whose result file
\* parses at that moment and changes no result file.
C35_AgentModeNoSpawn ==
  /\ [](opts.mode = "agent" => spawned = {} /\ running = {} /\ dispatched = {})
  /\ [][(pc = "aggregate" /\ pc' = "done")
          => /\ prompts = Backlog
             /\ report'.issues = SelectSeq(rawIssues, LAMBDA i : results[i].kind = "json")
             /\ report'.written = (report'.issues # <<>>)
             /\ results' = results]_vars

\* C35 witness: an agent-mode run over three issues has ended - three
\* prompts written, no process spawned - and its report lists the two
\* issues whose result file was there and parsed.
C35_Witness ==
  /\ pc = "done" /\ opts.mode = "agent" /\ Len(rawIssues) = 3
  /\ prompts = {1, 2, 3} /\ spawned = {}
  /\ report.written /\ Len(report.issues) = 2

\* C36: an invocation prints at most one verdict, and in a printed verdict
\* success is true exactly when exitCode is 0.
C36_VerdictCoherent ==
  \A p \in Sandboxes :
    /\ Len(sbOut[p]) <= 1
    /\ \A k \in 1..Len(sbOut[p]) : sbOut[p][k].success <=> (sbOut[p][k].exitCode = 0)

\* C36 witness: one invocation ended with the verdict of a compiler killed
\* at its timeout (no exit status), the other with the verdict of a
\* compiler that exited 0.
C36_Witness ==
  /\ sbPc[1] = "done" /\ Compiled(1) /\ sbRan[1][2].outcome = "timeout"
  /\ Len(sbOut[1]) = 1
  /\ sbOut[1][1].success = FALSE /\ sbOut[1][1].exitCode = 1
  /\ sbPc[2] = "done" /\ Len(sbOut[2]) = 1
  /\ sbOut[2][1].success = TRUE /\ sbOut[2][1].exitCode = 0

\* C37 as stated: in a cli run, whatever the concurrency, the dispatch loop
\* ends; when it has ended executeAgent has been called once for every
\* backlog issue; the calls are made in backlog order; and with a
\* concurrency <= 1 the sequential loop is the one that runs.
C37_DispatchLoopTerminates ==
  /\ (pc \in {"seq", "par", "map"}) ~> (pc = "aggregate")
  /\ [](pc = "aggregate" => \A i \in Issues : jobs[i] = (IF InBacklog(i) THEN 1 ELSE 0))
  /\ [][\A i \in Issues :
          CallOf(i) => \A k \in 1..(BacklogPlace(i) - 1) : rawIssues[k] \in dispatched]_vars
  /\ [](ConcurrencyLeOne(opts.concurrency) => pc \notin {"par", "map"})

\* C38: in the second of two runs, a call of executeAgent spawns an agent
\* process for the issue exactly when the issue has no result file that
\* parses at that moment, an agent process is spawned by such a call only,
\* and no issue gets two processes in the run.
C38_RerunSpawnsMissingOnly ==
  [][run = 2 =>
       \A i \in Issues :
         /\ CallOf(i) => ((i \in spawned') <=> (results[i].kind # "json"))
         /\ (i \in spawned' /\ i \notin spawned)
              => (CallOf(i) /\ results[i].kind \in {"absent", "corrupt"})
         /\ (i \in running' /\ i \notin running) => i \notin spawned]_vars

\* C38 witness: the second run has ended having spawned a process for an
\* issue whose file of the first run was corrupt and none for an issue whose
\* file parsed.
C38_Witness ==
  /\ run = 2 /\ pc = "done"
  /\ \E i \in spawned, j \in dispatched \ spawned :
       /\ last.issue = i /\ last.path = "ran" /\ last.lookup = Corrupt
       /\ results[j].kind = "json"

\* C39 as stated: the end of an executeAgent call keeps, in the result file
\* and in the result it returns, every input or output token count that the
\* agent's file reported as a number other than 0.
C39_ReportedCountKept ==
  [][AgentCallEnds
       => LET file == results[cur]
          IN  (file.kind = "json" /\ file.tokenUsage # <<>>)
                => \A k \in 1..2 :
                     file.tokenUsage[k] # 0
                       => /\ results'[cur].tokenUsage[k] = file.tokenUsage[k]
                          /\ (last'.triageIssue # NullTask
                                => last'.triageIssue.tokenUsage[k] = file.tokenUsage[k])]_vars

\* C40 as stated: over result files whose reproStatus and verification are
\* values of the type, the three reproduction counts of a written summary add
\* up to totalIssues and so do its four verification counts.
C40_StatusGroupsCoverAll ==
  report.written
    => /\ report.summary.withRepro + report.summary.withoutRepro
            + report.summary.generatedRepro
          = report.summary.totalIssues
       /\ report.summary.stillReproduces + report.summary.fixed
            + report.summary.compileError + report.summary.notVerified
          = report.summary.totalIssues

====
